---------------------------- MODULE Spec2Model ----------------------------
(***************************************************************************)
(* Model of the Signal-style session backend of nithzhizn-cpu/corp.        *)
(*                                                                         *)
(* Two generations of the backend live in the repository:                  *)
(*   v6: src/main.py          + src/signal_core.py   (chained ratchet)     *)
(*   v7: src/backend/main.py  + src/backend/crypto/signal_core.py          *)
(*                                               (single static root key)  *)
(*                                                                         *)
(* Byte strings are flat sequences of string tokens.  A hash is the        *)
(* bracketed sequence of its input, so two hashes are equal exactly when   *)
(* their inputs are (SHA-256 taken as collision free).  Values drawn from  *)
(* the operating system's random source (X25519 keys, nonces, uuid4) are   *)
(* fresh tokens numbered by counters.                                      *)
(***************************************************************************)
EXTENDS Integers, Sequences, FiniteSets, TLC

(***************************************************************************)
(* Bounds of the model.                                                    *)
(***************************************************************************)
\* number of /register calls ever made (uuid4 never repeats an id)
MaxUsers == 2
\* one-time prekeys made per registration; the handlers pass 20
\* (src/main.py:97, src/backend/main.py:122), the model a smaller pool so
\* that an exhausted pool is reachable
PrekeysPerUser == 2
\* number of /session/init calls ever made (one ephemeral key each)
MaxInits == 2
\* number of ratchet_decrypt calls ever made on the chained (v6) states
MaxDecrypts == 2
\* handler threads of the worker pool that run at the same time
NumThreads == 2
\* number of handler calls the threads of the worker pool ever start
MaxCalls == 3
\* number of ratchet_encrypt calls ever made (one nonce each)
MaxMsgs == 2

Texts == {"", "hello"}
Usernames == {"alice"}
UserIds == 1..MaxUsers
Threads == 1..NumThreads

(***************************************************************************)
(* Bytes, base64, utf-8                                                    *)
(***************************************************************************)
\* b64e: bytes -> str
b64e(b) == <<"b64">> \o b

\* b64d: str -> bytes
b64d(s) == Tail(s)

\* str.encode("utf-8")
utf8_encode(text) == <<"utf8", text>>

\* bytes.decode("utf-8")
utf8_decode(b) == b[2]

\* SHA256(salt || secret || info)[:length]; every caller asks for the whole
\* 32-byte digest
hkdf(secret, salt, info) == <<"SHA256(">> \o salt \o secret \o info \o <<")">>

(***************************************************************************)
(* X25519                                                                  *)
(***************************************************************************)
KeyKinds == <<"ik", "spk", "opk", "ek">>

\* X25519PrivateKey.generate() followed by _priv_bytes: a fresh private key,
\* named by its kind, its owner and a serial number
GeneratePriv(kind, owner, serial) ==
    <<"priv", kind, ToString(owner), ToString(serial)>>

\* _pub_bytes(priv.public_key())
PublicKey(priv) == <<"pub">> \o Tail(priv)

MaxSerial == MaxUsers + PrekeysPerUser + MaxInits + MaxMsgs + MaxCalls

Num(str) == CHOOSE i \in 0..MaxSerial : ToString(i) = str

KindNo(kind) == CHOOSE i \in 1..Len(KeyKinds) : KeyKinds[i] = kind

\* a total order on key names, used to write g^(ab) one way only
Rank(name) ==
    (KindNo(name[1]) * (MaxSerial + 1) + Num(name[2])) * (MaxSerial + 1)
        + Num(name[3])

\* priv.exchange(pub): the X25519 shared secret, the same for (a, g^b) and
\* (b, g^a)
Exchange(priv, pub) ==
    LET a == Tail(priv)
        b == Tail(pub)
    IN  IF Rank(a) <= Rank(b) THEN <<"dh">> \o a \o b ELSE <<"dh">> \o b \o a

(***************************************************************************)
(* AES-256-GCM                                                             *)
(***************************************************************************)
\* AESGCM(key).encrypt(nonce, data, None): ciphertext and tag
AesEncrypt(key, nonce, data) ==
    <<"aesgcm(">> \o key \o nonce \o data \o <<")">>

AesPrefix(key, nonce) == <<"aesgcm(">> \o key \o nonce

\* does the tag of ct verify under (key, nonce)
AesTagOk(key, nonce, ct) ==
    LET p == AesPrefix(key, nonce)
    IN  /\ Len(ct) > Len(p)
        /\ SubSeq(ct, 1, Len(p)) = p
        /\ ct[Len(ct)] = ")"

\* AESGCM(key).decrypt(nonce, ct, None) when the tag verifies
AesPlain(key, nonce, ct) ==
    SubSeq(ct, Len(AesPrefix(key, nonce)) + 1, Len(ct) - 1)

\* os.urandom(12)
Urandom(serial) == <<"nonce", ToString(serial)>>

(***************************************************************************)
(* Key material (identical in v6 and v7 up to the container type)          *)
(***************************************************************************)
\* generate_identity(): identity key, signed prekey and the pseudo
\* signature hkdf(spk_pub, salt = identity_priv, info = "sig")
generate_identity(owner) ==
    LET identity_priv_bytes == GeneratePriv("ik", owner, 0)
        identity_pub_bytes  == PublicKey(identity_priv_bytes)
        spk_priv_bytes      == GeneratePriv("spk", owner, 0)
        spk_pub_bytes       == PublicKey(spk_priv_bytes)
        sig == hkdf(spk_pub_bytes, identity_priv_bytes, <<"sig">>)
    IN  [identity_priv_b64      |-> b64e(identity_priv_bytes),
         identity_pub_b64       |-> b64e(identity_pub_bytes),
         signed_prekey_priv_b64 |-> b64e(spk_priv_bytes),
         signed_prekey_pub_b64  |-> b64e(spk_pub_bytes),
         signed_prekey_sig_b64  |-> b64e(sig)]

\* generate_onetime_prekeys(n)
generate_onetime_prekeys(n, owner) ==
    [i \in 1..n |->
        LET priv_bytes == GeneratePriv("opk", owner, i)
        IN  [priv_b64 |-> b64e(priv_bytes),
             pub_b64  |-> b64e(PublicKey(priv_bytes))]]

\* generate_ephemeral_key_b64()
generate_ephemeral_key_b64(serial) == b64e(GeneratePriv("ek", 0, serial))

\* Python's None for the optional one-time prekey; falsy like None
None == <<>>

\* x3dh_sender without the fourth exchange: the one-time prekey is ignored
x3dh_sender_three(identity_priv_b64, eph_priv_b64, recv_bundle, onetime_prekey_pub_b64) ==
    LET IKr_pub  == b64d(recv_bundle.identity_pub_b64)
        SPKr_pub == b64d(recv_bundle.signed_prekey_pub_b64)
        IKs_priv == b64d(identity_priv_b64)
        EKs_priv == b64d(eph_priv_b64)
        dh1 == Exchange(IKs_priv, SPKr_pub)
        dh2 == Exchange(EKs_priv, IKr_pub)
        dh3 == Exchange(EKs_priv, SPKr_pub)
    IN  hkdf(dh1 \o dh2 \o dh3, <<>>, <<"X3DH">>)

\* x3dh_sender(identity_priv_b64, eph_priv_b64, recv_bundle,
\*             onetime_prekey_pub_b64)
x3dh_sender(identity_priv_b64, eph_priv_b64, recv_bundle, onetime_prekey_pub_b64) ==
    LET IKr_pub  == b64d(recv_bundle.identity_pub_b64)
        SPKr_pub == b64d(recv_bundle.signed_prekey_pub_b64)
        IKs_priv == b64d(identity_priv_b64)
        EKs_priv == b64d(eph_priv_b64)
        dh1 == Exchange(IKs_priv, SPKr_pub)
        dh2 == Exchange(EKs_priv, IKr_pub)
        dh3 == Exchange(EKs_priv, SPKr_pub)
        dh4 == IF onetime_prekey_pub_b64 # None
               THEN Exchange(EKs_priv, b64d(onetime_prekey_pub_b64))
               ELSE <<>>
    IN  hkdf(dh1 \o dh2 \o dh3 \o dh4, <<>>, <<"X3DH">>)

(***************************************************************************)
(* State                                                                   *)
(***************************************************************************)
VARIABLES
    USERS,            \* user_id -> profile + keys
    PREKEYS,          \* user_id -> list of one-time prekeys
    SESSIONS,         \* (sender, receiver) -> RatchetState
    INBOX,            \* user_id -> list of {"from", "packet"}
    CALL_CONNECTIONS, \* the user_ids with an open call websocket
    uuids,            \* number of uuid4 values issued by /register
    inits,            \* number of ephemeral keys generated
    nonces,           \* number of nonces drawn by ratchet_encrypt
    decrypts,         \* number of v6 ratchet_decrypt calls made
    resp,             \* what the last handler returned (or raised)
    encLog,           \* per session: the ratchet_encrypt calls on its state
    delivered,        \* the (sender, receiver, packet) decrypted so far
    handed,           \* the one-time prekeys popped, in the order of the pops
    decCalls,         \* per v6 session: the ratchet_decrypt calls on its state
    lastDec,          \* the last ratchet_decrypt call observed and its outcome
    thr               \* the handler threads of the worker pool

vars == <<USERS, PREKEYS, SESSIONS, INBOX, CALL_CONNECTIONS, uuids, inits,
          nonces, decrypts, resp, encLog, delivered, handed, decCalls, lastDec, thr>>

tables == <<USERS, PREKEYS, SESSIONS, INBOX>>

\* ZERO_TRACE_SECRET
ZERO_TRACE_SECRET == "SET_YOUR_SECRET"

AdminSecrets == {ZERO_TRACE_SECRET, "guess"}

\* ids a client can name: every id issued so far, and 0 for a string that
\* is no issued id
KnownIds == 0..uuids

\* d[k] = v on a Python dict
DictSet(d, k, v) == [x \in DOMAIN d \cup {k} |-> IF x = k THEN v ELSE d[x]]

\* d.get(k, []) on a dict of lists
DictGetList(d, k) == IF k \in DOMAIN d THEN d[k] ELSE <<>>

(***************************************************************************)
(* v7 engine: src/backend/crypto/signal_core.py                            *)
(***************************************************************************)
\* RatchetState(root_key = ...)
v7_RatchetState(root_key) == [root_key |-> root_key]

\* _derive_msg_key(root_key)
v7_derive_msg_key(root_key) == hkdf(root_key, <<>>, <<"msg_key_v1">>)

\* ratchet_encrypt(state, plaintext); nonce is the os.urandom(12) it draws
v7_ratchet_encrypt(state, plaintext, nonce) ==
    LET key == v7_derive_msg_key(state.root_key)
        ct  == AesEncrypt(key, nonce, utf8_encode(plaintext))
    IN  [state   |-> state,
         msg_key |-> key,
         packet  |-> [nonce_b64 |-> b64e(nonce), ct_b64 |-> b64e(ct)]]

\* ratchet_decrypt on a state that moves to the next key after every
\* message, as a chained ratchet does
v7_ratchet_decrypt_chained(state, packet) ==
    LET key  == v7_derive_msg_key(state.root_key)
        next == [root_key |-> hkdf(state.root_key, <<>>, <<"ck">>)]
    IN  IF ~({"nonce_b64", "ct_b64"} \subseteq DOMAIN packet)
        THEN [raised |-> "KeyError", plaintext |-> "", state |-> state,
              msg_key |-> key]
        ELSE LET nonce == b64d(packet.nonce_b64)
                 ct    == b64d(packet.ct_b64)
             IN  IF AesTagOk(key, nonce, ct)
                 THEN [raised |-> "",
                       plaintext |-> utf8_decode(AesPlain(key, nonce, ct)),
                       state |-> next, msg_key |-> key]
                 ELSE [raised |-> "InvalidTag", plaintext |-> "",
                       state |-> state, msg_key |-> key]

\* ratchet_decrypt deriving its key under a label of its own, as the
\* chained engine does
v7_ratchet_decrypt_recv(state, packet) ==
    LET key == hkdf(state.root_key, <<>>, <<"msg_key_v1", "recv">>)
    IN  IF ~({"nonce_b64", "ct_b64"} \subseteq DOMAIN packet)
        THEN [raised |-> "KeyError", plaintext |-> "", state |-> state,
              msg_key |-> key]
        ELSE LET nonce == b64d(packet.nonce_b64)
                 ct    == b64d(packet.ct_b64)
             IN  IF AesTagOk(key, nonce, ct)
                 THEN [raised |-> "",
                       plaintext |-> utf8_decode(AesPlain(key, nonce, ct)),
                       state |-> state, msg_key |-> key]
                 ELSE [raised |-> "InvalidTag", plaintext |-> "",
                       state |-> state, msg_key |-> key]

\* ratchet_decrypt(state, packet): raised is "" when it returns
\* (plaintext, state), else the exception's name
v7_ratchet_decrypt(state, packet) ==
    LET key == v7_derive_msg_key(state.root_key)
    IN  IF ~({"nonce_b64", "ct_b64"} \subseteq DOMAIN packet)
        THEN [raised |-> "KeyError", plaintext |-> "", state |-> state,
              msg_key |-> key]
        ELSE LET nonce == b64d(packet.nonce_b64)
                 ct    == b64d(packet.ct_b64)
             IN  IF AesTagOk(key, nonce, ct)
                 THEN [raised |-> "",
                       plaintext |-> utf8_decode(AesPlain(key, nonce, ct)),
                       state |-> state, msg_key |-> key]
                 ELSE [raised |-> "InvalidTag", plaintext |-> "",
                       state |-> state, msg_key |-> key]

(***************************************************************************)
(* Handlers common to both backends                                        *)
(***************************************************************************)
Idle == [t \in {} |-> 0]

\* no ratchet_decrypt call has been made yet
NoDec == [k |-> 0]

\* the pacing of the counters that stand for fresh random values
counters == <<uuids, inits, nonces>>

logs == encLog

\* POST /register
register(username) ==
    /\ uuids < MaxUsers
    /\ LET user_id == uuids + 1
           ident   == generate_identity(user_id)
           prekeys == generate_onetime_prekeys(PrekeysPerUser, user_id)
       IN  /\ USERS' = DictSet(USERS, user_id,
                  [username |-> username,
                   identity_priv_b64      |-> ident.identity_priv_b64,
                   identity_pub_b64       |-> ident.identity_pub_b64,
                   signed_prekey_priv_b64 |-> ident.signed_prekey_priv_b64,
                   signed_prekey_pub_b64  |-> ident.signed_prekey_pub_b64,
                   signed_prekey_sig_b64  |-> ident.signed_prekey_sig_b64])
           /\ PREKEYS' = DictSet(PREKEYS, user_id, prekeys)
           /\ INBOX' = DictSet(INBOX, user_id, <<>>)
           /\ resp' = [op |-> "register", user_id |-> user_id,
                       identity_pub |-> ident.identity_pub_b64,
                       signed_prekey_pub |-> ident.signed_prekey_pub_b64,
                       signed_prekey_sig |-> ident.signed_prekey_sig_b64,
                       onetime_prekeys |->
                           [i \in DOMAIN prekeys |-> prekeys[i].pub_b64]]
    /\ uuids' = uuids + 1
    /\ UNCHANGED <<SESSIONS, CALL_CONNECTIONS, inits, nonces, logs, thr>>

\* the body GET /bundle/{user_id} returns
get_bundle_body(user_id) ==
    IF user_id \notin DOMAIN USERS
    THEN [error |-> "invalid user"]
    ELSE [identity_pub      |-> USERS[user_id].identity_pub_b64,
          signed_prekey_pub |-> USERS[user_id].signed_prekey_pub_b64,
          signed_prekey_sig |-> USERS[user_id].signed_prekey_sig_b64,
          onetime_prekeys   |->
              LET pool == DictGetList(PREKEYS, user_id)
              IN  [i \in DOMAIN pool |-> pool[i].pub_b64]]

\* GET /bundle/{user_id}
get_bundle(user_id) ==
    /\ resp' = [op |-> "get_bundle",
                body |-> get_bundle_body(user_id)]
    /\ UNCHANGED <<tables, CALL_CONNECTIONS, counters, logs, thr>>

\* /zerotrace/wipe that leaves the call sockets registered
wipe_keep_calls(admin_secret) ==
    /\ IF admin_secret # ZERO_TRACE_SECRET
       THEN /\ resp' = [op |-> "wipe", error |-> "invalid"]
            /\ UNCHANGED <<tables, CALL_CONNECTIONS, logs>>
       ELSE /\ USERS' = Idle
            /\ PREKEYS' = Idle
            /\ SESSIONS' = Idle
            /\ INBOX' = Idle
            /\ encLog' = Idle
            /\ resp' = [op |-> "wipe", status |-> "wiped"]
            /\ UNCHANGED CALL_CONNECTIONS
    /\ UNCHANGED <<counters, thr>>

\* /zerotrace/wipe that leaves the inboxes as they are
wipe_keep_inbox(admin_secret) ==
    /\ IF admin_secret # ZERO_TRACE_SECRET
       THEN /\ resp' = [op |-> "wipe", error |-> "invalid"]
            /\ UNCHANGED <<tables, CALL_CONNECTIONS, logs>>
       ELSE /\ USERS' = Idle
            /\ CALL_CONNECTIONS' = {}
            /\ PREKEYS' = Idle
            /\ SESSIONS' = Idle
            /\ encLog' = Idle
            /\ resp' = [op |-> "wipe", status |-> "wiped"]
            /\ UNCHANGED INBOX
    /\ UNCHANGED <<counters, thr>>

\* POST /zerotrace/wipe
wipe(admin_secret) ==
    /\ IF admin_secret # ZERO_TRACE_SECRET
       THEN /\ resp' = [op |-> "wipe", error |-> "invalid"]
            /\ UNCHANGED <<tables, CALL_CONNECTIONS, logs>>
       ELSE /\ USERS' = Idle
            /\ CALL_CONNECTIONS' = {}
            /\ PREKEYS' = Idle
            /\ SESSIONS' = Idle
            /\ INBOX' = Idle
            /\ encLog' = Idle
            /\ resp' = [op |-> "wipe", status |-> "wiped"]
    /\ UNCHANGED <<counters, thr>>

(***************************************************************************)
(* v7 handlers: src/backend/main.py                                        *)
(***************************************************************************)
\* /session/init that takes the one-time prekey before it validates the ids
v7_session_init_body_late(s, r) ==
    /\ IF s \notin DOMAIN USERS \/ r \notin DOMAIN USERS
       THEN /\ resp' = [op |-> "session_init",
                        error |-> "invalid sender/receiver"]
            /\ PREKEYS' = IF DictGetList(PREKEYS, r) # <<>>
                          THEN [PREKEYS EXCEPT ![r] = Tail(PREKEYS[r])]
                          ELSE PREKEYS
            /\ UNCHANGED <<USERS, SESSIONS, INBOX, counters, logs>>
       ELSE LET recv_bundle ==
                    [identity_pub_b64      |-> USERS[r].identity_pub_b64,
                     signed_prekey_pub_b64 |-> USERS[r].signed_prekey_pub_b64,
                     signed_prekey_sig_b64 |-> USERS[r].signed_prekey_sig_b64]
                pool    == DictGetList(PREKEYS, r)
                popped  == pool # <<>>
                onetime == IF popped THEN Head(pool).pub_b64 ELSE None
                master_secret ==
                    x3dh_sender(USERS[s].identity_priv_b64,
                                generate_ephemeral_key_b64(inits + 1),
                                recv_bundle, onetime)
            IN  /\ PREKEYS' = IF popped
                              THEN [PREKEYS EXCEPT ![r] = Tail(pool)]
                              ELSE PREKEYS
                /\ SESSIONS' = DictSet(DictSet(SESSIONS, <<s, r>>,
                                           v7_RatchetState(master_secret)),
                                       <<r, s>>, v7_RatchetState(master_secret))
                /\ encLog' = DictSet(DictSet(encLog, <<s, r>>, <<>>), <<r, s>>, <<>>)
                /\ inits' = inits + 1
                /\ resp' = [op |-> "session_init",
                            status |-> "session_established",
                            used_one_time_prekey |-> (onetime # None)]
                /\ UNCHANGED <<USERS, INBOX, uuids, nonces>>
    /\ UNCHANGED <<CALL_CONNECTIONS, thr>>

\* POST /session/init
v7_session_init_body(s, r) ==
    /\ IF s \notin DOMAIN USERS \/ r \notin DOMAIN USERS
       THEN /\ resp' = [op |-> "session_init",
                        error |-> "invalid sender/receiver"]
            /\ UNCHANGED <<tables, counters, logs>>
       ELSE LET recv_bundle ==
                    [identity_pub_b64      |-> USERS[r].identity_pub_b64,
                     signed_prekey_pub_b64 |-> USERS[r].signed_prekey_pub_b64,
                     signed_prekey_sig_b64 |-> USERS[r].signed_prekey_sig_b64]
                pool    == DictGetList(PREKEYS, r)
                popped  == pool # <<>>
                onetime == IF popped THEN Head(pool).pub_b64 ELSE None
                master_secret ==
                    x3dh_sender(USERS[s].identity_priv_b64,
                                generate_ephemeral_key_b64(inits + 1),
                                recv_bundle, onetime)
            IN  /\ PREKEYS' = IF popped
                              THEN [PREKEYS EXCEPT ![r] = Tail(pool)]
                              ELSE PREKEYS
                /\ SESSIONS' = DictSet(DictSet(SESSIONS, <<s, r>>,
                                           v7_RatchetState(master_secret)),
                                       <<r, s>>, v7_RatchetState(master_secret))
                /\ encLog' = DictSet(DictSet(encLog, <<s, r>>, <<>>), <<r, s>>, <<>>)
                /\ inits' = inits + 1
                /\ resp' = [op |-> "session_init",
                            status |-> "session_established",
                            used_one_time_prekey |-> (onetime # None)]
                /\ UNCHANGED <<USERS, INBOX, uuids, nonces>>
    /\ UNCHANGED <<CALL_CONNECTIONS, thr>>

\* POST /session/init, as long as the model has ephemeral keys left
v7_session_init(s, r) ==
    /\ (s \in DOMAIN USERS /\ r \in DOMAIN USERS) => inits < MaxInits
    /\ v7_session_init_body(s, r)

\* message_send that makes the recipient's inbox before it looks the
\* session up
v7_message_send_eager(sender_id, receiver_id, text) ==
    LET session_key == <<sender_id, receiver_id>>
        inbox == DictSet(INBOX, receiver_id, DictGetList(INBOX, receiver_id))
    IN  /\ IF session_key \notin DOMAIN SESSIONS
           THEN /\ resp' = [op |-> "message_send",
                            error |-> "session not initialized"]
                /\ INBOX' = inbox
                /\ UNCHANGED <<nonces, encLog>>
           ELSE LET e == v7_ratchet_encrypt(SESSIONS[session_key], text,
                                            Urandom(nonces + 1))
                IN  /\ nonces < MaxMsgs
                    /\ INBOX' = DictSet(inbox, receiver_id,
                            Append(inbox[receiver_id],
                                   [from |-> sender_id, packet |-> e.packet]))
                    /\ nonces' = nonces + 1
                    /\ encLog' = [encLog EXCEPT ![session_key] =
                            Append(@, [msg_key |-> e.msg_key, text |-> text,
                                       packet |-> e.packet])]
                    /\ resp' = [op |-> "message_send", status |-> "sent"]
        /\ UNCHANGED <<USERS, PREKEYS, SESSIONS, CALL_CONNECTIONS, uuids,
                       inits, thr>>

\* POST /message/send
v7_message_send(sender_id, receiver_id, text) ==
    LET session_key == <<sender_id, receiver_id>>
    IN  /\ IF session_key \notin DOMAIN SESSIONS
           THEN /\ resp' = [op |-> "message_send",
                            error |-> "session not initialized"]
                /\ UNCHANGED <<INBOX, nonces, encLog>>
           ELSE LET e == v7_ratchet_encrypt(SESSIONS[session_key], text,
                                            Urandom(nonces + 1))
                IN  /\ nonces < MaxMsgs
                    /\ INBOX' = DictSet(INBOX, receiver_id,
                            Append(DictGetList(INBOX, receiver_id),
                                   [from |-> sender_id, packet |-> e.packet]))
                    /\ nonces' = nonces + 1
                    /\ encLog' = [encLog EXCEPT ![session_key] =
                            Append(@, [msg_key |-> e.msg_key, text |-> text,
                                       packet |-> e.packet])]
                    /\ resp' = [op |-> "message_send", status |-> "sent"]
        /\ UNCHANGED <<USERS, PREKEYS, SESSIONS, CALL_CONNECTIONS, uuids,
                       inits, thr>>

\* the for loop of poll over the items of INBOX[user_id]
RECURSIVE v7_poll_loop(_, _, _)
v7_poll_loop(user_id, msgs, acc) ==
    IF msgs = <<>> THEN acc
    ELSE LET item        == Head(msgs)
             sender      == item.from
             packet      == item.packet
             session_key == <<sender, user_id>>
         IN  IF session_key \notin DOMAIN acc.SESSIONS
             THEN v7_poll_loop(user_id, Tail(msgs), acc)
             ELSE LET d == v7_ratchet_decrypt(acc.SESSIONS[session_key],
                                              packet)
                  IN  IF d.raised = ""
                      THEN v7_poll_loop(user_id, Tail(msgs),
                              [SESSIONS |-> [acc.SESSIONS EXCEPT
                                                ![session_key] = d.state],
                               result |-> Append(acc.result,
                                   [from |-> sender, text |-> d.plaintext])])
                      ELSE v7_poll_loop(user_id, Tail(msgs), acc)

\* the items of msgs that poll cannot decrypt now
RECURSIVE UndecryptedItems(_, _)
UndecryptedItems(user_id, msgs) ==
    IF msgs = <<>> THEN <<>>
    ELSE LET item == Head(msgs)
             key  == <<item.from, user_id>>
             rest == UndecryptedItems(user_id, Tail(msgs))
         IN  IF key \in DOMAIN SESSIONS
                /\ v7_ratchet_decrypt(SESSIONS[key], item.packet).raised = ""
             THEN rest
             ELSE <<item>> \o rest

\* poll that keeps the items it could not decrypt for a later poll
v7_poll_keep(user_id) ==
    LET msgs == DictGetList(INBOX, user_id)
        out  == v7_poll_loop(user_id, msgs,
                    [SESSIONS |-> SESSIONS, result |-> <<>>])
    IN  /\ SESSIONS' = out.SESSIONS
        /\ INBOX' = DictSet(INBOX, user_id, UndecryptedItems(user_id, msgs))
        /\ resp' = [op |-> "poll", messages |-> out.result]
        /\ UNCHANGED <<USERS, PREKEYS, CALL_CONNECTIONS, counters, encLog,
                       thr>>

\* GET /message/poll/{user_id}
v7_poll(user_id) ==
    LET msgs == DictGetList(INBOX, user_id)
        out  == v7_poll_loop(user_id, msgs,
                    [SESSIONS |-> SESSIONS, result |-> <<>>])
    IN  /\ SESSIONS' = out.SESSIONS
        /\ INBOX' = DictSet(INBOX, user_id, <<>>)
        /\ resp' = [op |-> "poll", messages |-> out.result]
        /\ UNCHANGED <<USERS, PREKEYS, CALL_CONNECTIONS, counters, encLog,
                       thr>>

\* a packet with one bit of its ciphertext flipped
Tamper(packet) ==
    [packet EXCEPT !.ct_b64 = SubSeq(@, 1, Len(@) - 1) \o <<"flipped">>]

\* every packet ratchet_encrypt produced for a live session
ProducedPackets ==
    UNION {{encLog[k][i].packet : i \in DOMAIN encLog[k]} : k \in DOMAIN encLog}

\* a ciphertext dict without its ct_b64 field
Malformed == [nonce_b64 |-> b64e(Urandom(0))]

\* the ciphertext dicts a client posts to /message/receive
PacketInputs ==
    ProducedPackets \cup {Tamper(p) : p \in ProducedPackets} \cup {Malformed}

\* POST /message/receive
v7_receive_message(sender_id, receiver_id, ciphertext) ==
    LET session_key == <<sender_id, receiver_id>>
    IN  /\ IF session_key \notin DOMAIN SESSIONS
           THEN /\ resp' = [op |-> "receive_message",
                            error |-> "session not initialized"]
                /\ UNCHANGED SESSIONS
           ELSE LET d == v7_ratchet_decrypt(SESSIONS[session_key],
                                            ciphertext)
                IN  /\ IF d.raised = ""
                       THEN /\ SESSIONS' = [SESSIONS EXCEPT
                                               ![session_key] = d.state]
                            /\ resp' = [op |-> "receive_message",
                                        plaintext |-> d.plaintext]
                       ELSE /\ SESSIONS' = SESSIONS
                            /\ resp' = [op |-> "receive_message",
                                        error |-> d.raised]
        /\ UNCHANGED <<USERS, PREKEYS, INBOX, CALL_CONNECTIONS, counters,
                       encLog, thr>>

\* websocket /call/{user_id}: accept, then relay until the peer disconnects
call_socket_connect(user_id) ==
    /\ CALL_CONNECTIONS' = CALL_CONNECTIONS \cup {user_id}
    /\ UNCHANGED <<tables, counters, resp, logs, thr>>

\* WebSocketDisconnect in the relay loop of /call/{user_id}
call_socket_disconnect(user_id) ==
    /\ user_id \in CALL_CONNECTIONS
    /\ CALL_CONNECTIONS' = CALL_CONNECTIONS \ {user_id}
    /\ UNCHANGED <<tables, counters, resp, logs, thr>>

(***************************************************************************)
(* The v7 backend, one handler at a time                                   *)
(***************************************************************************)
Init ==
    /\ USERS = Idle
    /\ PREKEYS = Idle
    /\ SESSIONS = Idle
    /\ INBOX = Idle
    /\ CALL_CONNECTIONS = {}
    /\ uuids = 0
    /\ inits = 0
    /\ nonces = 0
    /\ decrypts = 0
    /\ resp = [op |-> "start"]
    /\ encLog = Idle
    /\ delivered = {}
    /\ handed = <<>>
    /\ decCalls = Idle
    /\ lastDec = NoDec
    /\ thr = Idle

\* the observers that the sequential backends leave alone
observers == <<delivered, handed>>

\* the observers of the v6 receiving chain
observers6 == <<decCalls, lastDec, decrypts>>

Frame7 == UNCHANGED <<observers, observers6>>

Next ==
    \/ \E username \in Usernames : register(username) /\ Frame7
    \/ \E u \in KnownIds : get_bundle(u) /\ Frame7
    \/ \E s, r \in KnownIds : v7_session_init(s, r) /\ Frame7
    \/ \E s, r \in KnownIds, text \in Texts :
           v7_message_send(s, r, text) /\ Frame7
    \/ \E u \in KnownIds : v7_poll(u) /\ Frame7
    \/ \E s, r \in KnownIds, c \in PacketInputs :
           v7_receive_message(s, r, c) /\ Frame7
    \/ \E secret \in AdminSecrets : wipe(secret) /\ Frame7

Spec == Init /\ [][Next]_vars

(***************************************************************************)
(* v6 engine: src/signal_core.py                                           *)
(***************************************************************************)
\* RatchetState(root_key, chain_key_send, chain_key_recv)
v6_RatchetState(root_key, chain_key_send, chain_key_recv) ==
    [root_key |-> root_key, chain_key_send |-> chain_key_send,
     chain_key_recv |-> chain_key_recv]

\* _kdf_chain(chain_key, usage) -> (new_chain, msg_key)
v6_kdf_chain(chain_key, usage) ==
    [msg_key   |-> hkdf(chain_key, <<>>, <<"msg">> \o usage),
     new_chain |-> hkdf(chain_key, <<>>, <<"ck">> \o usage)]

\* ratchet_encrypt without the assignment state.chain_key_send = new_ck
v6_ratchet_encrypt_stale(state, plaintext, nonce) ==
    LET kdf == v6_kdf_chain(state.chain_key_send, <<"send">>)
        ct  == AesEncrypt(kdf.msg_key, nonce, utf8_encode(plaintext))
    IN  [state         |-> state,
         msg_key       |-> kdf.msg_key,
         ck_at_encrypt |-> state.chain_key_send,
         packet        |-> [nonce_b64 |-> b64e(nonce), ct_b64 |-> b64e(ct)]]

\* ratchet_encrypt(state, plaintext): state is the object after the call,
\* ck_at_encrypt the sending chain key it holds when aes.encrypt runs
v6_ratchet_encrypt(state, plaintext, nonce) ==
    LET kdf    == v6_kdf_chain(state.chain_key_send, <<"send">>)
        state1 == [state EXCEPT !.chain_key_send = kdf.new_chain]
        ct     == AesEncrypt(kdf.msg_key, nonce, utf8_encode(plaintext))
    IN  [state         |-> state1,
         msg_key       |-> kdf.msg_key,
         ck_at_encrypt |-> state1.chain_key_send,
         packet        |-> [nonce_b64 |-> b64e(nonce), ct_b64 |-> b64e(ct)]]

\* ratchet_decrypt(state, packet): state is the object after the call,
\* whether it returned or raised; raised is "" when it returned
v6_ratchet_decrypt(state, packet) ==
    LET kdf    == v6_kdf_chain(state.chain_key_recv, <<"recv">>)
        state1 == [state EXCEPT !.chain_key_recv = kdf.new_chain]
    IN  IF ~({"nonce_b64", "ct_b64"} \subseteq DOMAIN packet)
        THEN [raised |-> "KeyError", plaintext |-> "", state |-> state1,
              msg_key |-> kdf.msg_key]
        ELSE LET nonce == b64d(packet.nonce_b64)
                 ct    == b64d(packet.ct_b64)
             IN  IF AesTagOk(kdf.msg_key, nonce, ct)
                 THEN [raised |-> "",
                       plaintext |->
                           utf8_decode(AesPlain(kdf.msg_key, nonce, ct)),
                       state |-> state1, msg_key |-> kdf.msg_key]
                 ELSE [raised |-> "InvalidTag", plaintext |-> "",
                       state |-> state1, msg_key |-> kdf.msg_key]

(***************************************************************************)
(* v6 handlers: src/main.py                                                *)
(***************************************************************************)
\* ZERO_TRACE_ADMIN_SECRET
ZERO_TRACE_ADMIN_SECRET == "CHANGE_ME_ZERO_TRACE_SECRET"

AdminSecrets6 == {ZERO_TRACE_ADMIN_SECRET, "guess"}

\* POST /register
v6_register(username) ==
    /\ uuids < MaxUsers
    /\ LET user_id == uuids + 1
           ident   == generate_identity(user_id)
           onetime == generate_onetime_prekeys(PrekeysPerUser, user_id)
       IN  /\ USERS' = DictSet(USERS, user_id,
                  [username |-> username,
                   identity_priv_b64      |-> ident.identity_priv_b64,
                   identity_pub_b64       |-> ident.identity_pub_b64,
                   signed_prekey_priv_b64 |-> ident.signed_prekey_priv_b64,
                   signed_prekey_pub_b64  |-> ident.signed_prekey_pub_b64,
                   signed_prekey_sig_b64  |-> ident.signed_prekey_sig_b64])
           /\ PREKEYS' = DictSet(PREKEYS, user_id, onetime)
           /\ INBOX' = DictSet(INBOX, user_id, <<>>)
           /\ resp' = [op |-> "register", user_id |-> user_id,
                       identity_pub_b64 |-> ident.identity_pub_b64,
                       signed_prekey_pub_b64 |-> ident.signed_prekey_pub_b64,
                       signed_prekey_sig_b64 |-> ident.signed_prekey_sig_b64,
                       onetime_prekeys_pub_b64 |->
                           [i \in DOMAIN onetime |-> onetime[i].pub_b64]]
    /\ uuids' = uuids + 1
    /\ UNCHANGED <<SESSIONS, CALL_CONNECTIONS, inits, nonces, logs,
                   observers6, thr>>

\* the body GET /bundle/{user_id} returns
v6_get_bundle_body(user_id) ==
    IF user_id \notin DOMAIN USERS
    THEN [error |-> "invalid user"]
    ELSE LET u == USERS[user_id]
         IN  [identity_pub_b64        |-> u.identity_pub_b64,
              signed_prekey_pub_b64   |-> u.signed_prekey_pub_b64,
              signed_prekey_sig_b64   |-> u.signed_prekey_sig_b64,
              onetime_prekeys_pub_b64 |->
                  LET pool == DictGetList(PREKEYS, user_id)
                  IN  [i \in DOMAIN pool |-> pool[i].pub_b64]]

\* GET /bundle/{user_id}
v6_get_bundle(user_id) ==
    /\ resp' = [op |-> "get_bundle", body |-> v6_get_bundle_body(user_id)]
    /\ UNCHANGED <<tables, CALL_CONNECTIONS, counters, logs, observers6, thr>>

\* POST /session/init
v6_session_init(sender, receiver) ==
    /\ IF sender \notin DOMAIN USERS \/ receiver \notin DOMAIN USERS
       THEN /\ resp' = [op |-> "session_init",
                        error |-> "invalid sender/receiver"]
            /\ UNCHANGED <<tables, counters, logs, observers6>>
       ELSE LET recv_bundle ==
                    [identity_pub_b64 |-> USERS[receiver].identity_pub_b64,
                     signed_prekey_pub_b64 |->
                         USERS[receiver].signed_prekey_pub_b64,
                     signed_prekey_sig_b64 |->
                         USERS[receiver].signed_prekey_sig_b64]
                pool   == DictGetList(PREKEYS, receiver)
                popped == pool # <<>>
                onetime_prekey_pub_b64 ==
                    IF popped THEN Head(pool).pub_b64 ELSE None
                master_secret ==
                    x3dh_sender(USERS[sender].identity_priv_b64,
                                generate_ephemeral_key_b64(inits + 1),
                                recv_bundle, onetime_prekey_pub_b64)
                init_state ==
                    v6_RatchetState(master_secret, master_secret,
                                    master_secret)
            IN  /\ inits < MaxInits
                /\ PREKEYS' = IF popped
                              THEN [PREKEYS EXCEPT ![receiver] = Tail(pool)]
                              ELSE PREKEYS
                /\ SESSIONS' = DictSet(SESSIONS, <<sender, receiver>>,
                                       init_state)
                /\ encLog' = DictSet(encLog, <<sender, receiver>>, <<>>)
                /\ decCalls' = DictSet(decCalls, <<sender, receiver>>, 0)
                /\ UNCHANGED <<lastDec, decrypts>>
                /\ inits' = inits + 1
                /\ resp' = [op |-> "session_init",
                            status |-> "session_established",
                            used_one_time_prekey |->
                                (onetime_prekey_pub_b64 # None)]
                /\ UNCHANGED <<USERS, INBOX, uuids, nonces>>
    /\ UNCHANGED <<CALL_CONNECTIONS, thr>>

\* message_send on a state object that the reverse direction holds too:
\* the advance of the sending chain shows under (receiver, sender) as well
v6_message_send_shared(sender_id, receiver_id, text) ==
    LET key == <<sender_id, receiver_id>>
        rev == <<receiver_id, sender_id>>
    IN  /\ IF key \notin DOMAIN SESSIONS
           THEN /\ resp' = [op |-> "message_send",
                            error |-> "session not initialized"]
                /\ UNCHANGED <<SESSIONS, INBOX, nonces, encLog>>
           ELSE LET state == SESSIONS[key]
                    e == v6_ratchet_encrypt(state, text, Urandom(nonces + 1))
                IN  /\ nonces < MaxMsgs
                    /\ SESSIONS' = [k \in DOMAIN SESSIONS |->
                                       IF k \in {key, rev} THEN e.state
                                       ELSE SESSIONS[k]]
                    /\ INBOX' = DictSet(INBOX, receiver_id,
                            Append(DictGetList(INBOX, receiver_id),
                                   [from |-> sender_id, packet |-> e.packet]))
                    /\ nonces' = nonces + 1
                    /\ encLog' = [encLog EXCEPT ![key] =
                            Append(@, [msg_key |-> e.msg_key, text |-> text,
                                       packet |-> e.packet,
                                       ck_in |-> state.chain_key_send,
                                       ck_at_encrypt |-> e.ck_at_encrypt,
                                       after |-> e.state])]
                    /\ resp' = [op |-> "message_send", status |-> "sent"]
        /\ UNCHANGED <<USERS, PREKEYS, CALL_CONNECTIONS, uuids, inits,
                       observers6, thr>>

\* POST /message/send
v6_message_send(sender_id, receiver_id, text) ==
    LET key == <<sender_id, receiver_id>>
    IN  /\ IF key \notin DOMAIN SESSIONS
           THEN /\ resp' = [op |-> "message_send",
                            error |-> "session not initialized"]
                /\ UNCHANGED <<SESSIONS, INBOX, nonces, encLog>>
           ELSE LET state == SESSIONS[key]
                    e == v6_ratchet_encrypt(state, text, Urandom(nonces + 1))
                IN  /\ nonces < MaxMsgs
                    /\ SESSIONS' = [SESSIONS EXCEPT ![key] = e.state]
                    /\ INBOX' = DictSet(INBOX, receiver_id,
                            Append(DictGetList(INBOX, receiver_id),
                                   [from |-> sender_id, packet |-> e.packet]))
                    /\ nonces' = nonces + 1
                    /\ encLog' = [encLog EXCEPT ![key] =
                            Append(@, [msg_key |-> e.msg_key, text |-> text,
                                       packet |-> e.packet,
                                       ck_in |-> state.chain_key_send,
                                       ck_at_encrypt |-> e.ck_at_encrypt,
                                       after |-> e.state])]
                    /\ resp' = [op |-> "message_send", status |-> "sent"]
        /\ UNCHANGED <<USERS, PREKEYS, CALL_CONNECTIONS, uuids, inits,
                       observers6, thr>>

\* the for loop of message_poll over the items of INBOX[user_id]; it ends
\* at the first ratchet_decrypt that raises, nothing in the handler
\* catching it
RECURSIVE v6_poll_loop(_, _, _)
v6_poll_loop(user_id, msgs, acc) ==
    IF msgs = <<>> \/ acc.raised # "" THEN acc
    ELSE LET item   == Head(msgs)
             sender == item.from
             packet == item.packet
             key    == <<sender, user_id>>
         IN  IF key \notin DOMAIN acc.SESSIONS
             THEN v6_poll_loop(user_id, Tail(msgs), acc)
             ELSE LET state == acc.SESSIONS[key]
                      d     == v6_ratchet_decrypt(state, packet)
                      calls == [acc.decCalls EXCEPT ![key] = @ + 1]
                      last  == [k |-> calls[key], session |-> key,
                                packet |-> packet, msg_key |-> d.msg_key,
                                raised |-> d.raised,
                                plaintext |-> d.plaintext,
                                before |-> state, after |-> d.state]
                  IN  v6_poll_loop(user_id, Tail(msgs),
                          [SESSIONS |-> [acc.SESSIONS EXCEPT ![key] = d.state],
                           result |-> IF d.raised = ""
                                      THEN Append(acc.result,
                                               [from |-> sender,
                                                text |-> d.plaintext])
                                      ELSE acc.result,
                           raised |-> d.raised,
                           decCalls |-> calls,
                           lastDec |-> last,
                           n |-> acc.n + 1])

\* GET /message/poll/{user_id}
v6_message_poll(user_id) ==
    LET msgs == DictGetList(INBOX, user_id)
        out  == v6_poll_loop(user_id, msgs,
                    [SESSIONS |-> SESSIONS, result |-> <<>>, raised |-> "",
                     decCalls |-> decCalls, lastDec |-> lastDec, n |-> 0])
    IN  /\ decrypts + out.n <= MaxDecrypts
        /\ decrypts' = decrypts + out.n
        /\ SESSIONS' = out.SESSIONS
        /\ decCalls' = out.decCalls
        /\ lastDec' = out.lastDec
        /\ IF out.raised = ""
           THEN /\ INBOX' = DictSet(INBOX, user_id, <<>>)
                /\ resp' = [op |-> "message_poll", messages |-> out.result]
           ELSE /\ INBOX' = INBOX
                /\ resp' = [op |-> "message_poll", raised |-> out.raised]
        /\ UNCHANGED <<USERS, PREKEYS, CALL_CONNECTIONS, uuids, inits, nonces,
                       encLog, thr>>

\* POST /zerotrace/wipe
v6_zerotrace_wipe(admin_secret) ==
    /\ IF admin_secret # ZERO_TRACE_ADMIN_SECRET
       THEN /\ resp' = [op |-> "wipe", error |-> "forbidden"]
            /\ UNCHANGED <<tables, CALL_CONNECTIONS, logs, observers6>>
       ELSE /\ USERS' = Idle
            /\ CALL_CONNECTIONS' = {}
            /\ PREKEYS' = Idle
            /\ SESSIONS' = Idle
            /\ INBOX' = Idle
            /\ encLog' = Idle
            /\ decCalls' = Idle
            /\ UNCHANGED <<lastDec, decrypts>>
            /\ resp' = [op |-> "wipe", status |-> "wiped"]
    /\ UNCHANGED <<counters, thr>>

(***************************************************************************)
(* The v6 backend, one handler at a time                                   *)
(***************************************************************************)
Frame6 == UNCHANGED observers

NextV6 ==
    \/ \E username \in Usernames : v6_register(username) /\ Frame6
    \/ \E u \in KnownIds : v6_get_bundle(u) /\ Frame6
    \/ \E s, r \in KnownIds : v6_session_init(s, r) /\ Frame6
    \/ \E s, r \in KnownIds, text \in Texts :
           v6_message_send(s, r, text) /\ Frame6
    \/ \E u \in KnownIds : v6_message_poll(u) /\ Frame6
    \/ \E secret \in AdminSecrets6 : v6_zerotrace_wipe(secret) /\ Frame6

SpecV6 == Init /\ [][NextV6]_vars

(***************************************************************************)
(* The v7 backend under replay: /message/receive called again and again    *)
(* with packets seen before, an observer recording what each session      *)
(* state has decrypted                                                     *)
(***************************************************************************)
\* does ratchet_decrypt return for this /message/receive call
ReceiveDecrypts(s, r, c) ==
    /\ <<s, r>> \in DOMAIN SESSIONS
    /\ v7_ratchet_decrypt(SESSIONS[<<s, r>>], c).raised = ""

ReplayReceive(s, r, c) ==
    /\ v7_receive_message(s, r, c)
    /\ delivered' = IF ReceiveDecrypts(s, r, c)
                    THEN delivered \cup {<<s, r, c>>} ELSE delivered

\* a session_init that replaces the states of (s, r) and (r, s) starts
\* their counts afresh
ReplayInit(s, r) ==
    /\ v7_session_init(s, r)
    /\ delivered' =
           IF inits' # inits
           THEN {e \in delivered : <<e[1], e[2]>> \notin {<<s, r>>, <<r, s>>}}
           ELSE delivered

FrameReplay == UNCHANGED <<handed, observers6>>

NextReplay ==
    \/ \E username \in Usernames :
           register(username) /\ UNCHANGED delivered /\ FrameReplay
    \/ \E s, r \in KnownIds : ReplayInit(s, r) /\ FrameReplay
    \/ \E s, r \in KnownIds, text \in Texts :
           v7_message_send(s, r, text) /\ UNCHANGED delivered /\ FrameReplay
    \/ \E s, r \in KnownIds, c \in PacketInputs :
           ReplayReceive(s, r, c) /\ FrameReplay

SpecReplay == Init /\ [][NextReplay]_vars

(***************************************************************************)
(* v7 /session/init on the threads of the worker pool.  The handler is a   *)
(* plain def, so the server runs each call on a pool thread and a thread   *)
(* can be preempted between any two statements; list.pop and dict stores   *)
(* are single steps of the interpreter.                                    *)
(***************************************************************************)
\* list[0] in place of list.pop(0): the item stays in the list
ListPeek0(list) == [item |-> Head(list), rest |-> list]

\* list.pop(0) on a non-empty list
ListPop0(list) == [item |-> Head(list), rest |-> Tail(list)]

Running == DOMAIN thr

\* a thread takes a /session/init request: the USERS test and recv_bundle
init_begin(t, s, r) ==
    /\ t \notin Running
    /\ inits + Cardinality(Running) < MaxCalls
    /\ IF s \notin DOMAIN USERS \/ r \notin DOMAIN USERS
       THEN thr' = DictSet(thr, t,
                [pc |-> "return", s |-> s, r |-> r,
                 result |-> [op |-> "session_init",
                             error |-> "invalid sender/receiver"]])
       ELSE thr' = DictSet(thr, t,
                [pc |-> "check", s |-> s, r |-> r,
                 recv_bundle |->
                    [identity_pub_b64      |-> USERS[r].identity_pub_b64,
                     signed_prekey_pub_b64 |-> USERS[r].signed_prekey_pub_b64,
                     signed_prekey_sig_b64 |-> USERS[r].signed_prekey_sig_b64],
                 onetime |-> None])
    /\ UNCHANGED <<tables, CALL_CONNECTIONS, counters, resp, logs, observers,
                   observers6>>

\* if PREKEYS.get(r):
init_check(t) ==
    /\ t \in Running
    /\ thr[t].pc = "check"
    /\ thr' = [thr EXCEPT ![t].pc =
                  IF DictGetList(PREKEYS, thr[t].r) # <<>>
                  THEN "pop" ELSE "x3dh"]
    /\ UNCHANGED <<tables, CALL_CONNECTIONS, counters, resp, logs, observers,
                   observers6>>

\* pk = PREKEYS[r].pop(0); onetime = pk["pub_b64"]
init_pop(t) ==
    /\ t \in Running
    /\ thr[t].pc = "pop"
    /\ LET r == thr[t].r
       IN  IF PREKEYS[r] = <<>>
           THEN /\ thr' = [thr EXCEPT ![t].pc = "raised"]
                /\ UNCHANGED <<PREKEYS, handed>>
           ELSE LET p == ListPop0(PREKEYS[r])
                IN  /\ PREKEYS' = [PREKEYS EXCEPT ![r] = p.rest]
                    /\ thr' = [thr EXCEPT ![t].pc = "x3dh",
                                          ![t].onetime = p.item.pub_b64]
                    /\ handed' = Append(handed,
                                     [r |-> r, pub_b64 |-> p.item.pub_b64])
    /\ UNCHANGED <<USERS, SESSIONS, INBOX, CALL_CONNECTIONS, counters, resp,
                   logs, delivered, observers6>>

\* master_secret = x3dh_sender(...); SESSIONS[(s, r)] = RatchetState(...)
init_x3dh(t) ==
    /\ t \in Running
    /\ thr[t].pc = "x3dh"
    /\ LET s == thr[t].s
           r == thr[t].r
           master_secret ==
               x3dh_sender(USERS[s].identity_priv_b64,
                           generate_ephemeral_key_b64(inits + 1),
                           thr[t].recv_bundle, thr[t].onetime)
       IN  /\ SESSIONS' = DictSet(SESSIONS, <<s, r>>,
                                  v7_RatchetState(master_secret))
           /\ encLog' = DictSet(encLog, <<s, r>>, <<>>)
           /\ thr' = [t2 \in Running |->
                        IF t2 = t
                        THEN [pc |-> "store", s |-> s, r |-> r,
                              recv_bundle |-> thr[t].recv_bundle,
                              onetime |-> thr[t].onetime,
                              master_secret |-> master_secret]
                        ELSE thr[t2]]
    /\ inits' = inits + 1
    /\ UNCHANGED <<USERS, PREKEYS, INBOX, CALL_CONNECTIONS, uuids, nonces,
                   resp, observers, observers6>>

\* SESSIONS[(r, s)] = RatchetState(root_key = master_secret)
init_store(t) ==
    /\ t \in Running
    /\ thr[t].pc = "store"
    /\ LET s == thr[t].s
           r == thr[t].r
       IN  /\ SESSIONS' = DictSet(SESSIONS, <<r, s>>,
                                  v7_RatchetState(thr[t].master_secret))
           /\ encLog' = DictSet(encLog, <<r, s>>, <<>>)
           /\ thr' = [t2 \in Running |->
                        IF t2 = t
                        THEN [pc |-> "return", s |-> s, r |-> r,
                              result |->
                                 [op |-> "session_init",
                                  status |-> "session_established",
                                  used_one_time_prekey |->
                                      (thr[t].onetime # None)]]
                        ELSE thr[t2]]
    /\ UNCHANGED <<USERS, PREKEYS, INBOX, CALL_CONNECTIONS, counters, resp,
                   observers, observers6>>

\* the response leaves the server, or the exception becomes a 500
init_return(t) ==
    /\ t \in Running
    /\ thr[t].pc \in {"return", "raised"}
    /\ resp' = IF thr[t].pc = "return" THEN thr[t].result
               ELSE [op |-> "session_init", raised |-> "IndexError"]
    /\ thr' = [t2 \in Running \ {t} |-> thr[t2]]
    /\ UNCHANGED <<tables, CALL_CONNECTIONS, counters, logs, observers,
                   observers6>>

NextInit ==
    \/ \E username \in Usernames : register(username) /\ Frame7
    \/ \E t \in Threads : \E s, r \in KnownIds : init_begin(t, s, r)
    \/ \E t \in Threads : init_check(t)
    \/ \E t \in Threads : init_pop(t)
    \/ \E t \in Threads : init_x3dh(t)
    \/ \E t \in Threads : init_store(t)
    \/ \E t \in Threads : init_return(t)

SpecInit == Init /\ [][NextInit]_vars

(***************************************************************************)
(* v6 /message/send and /message/poll on the threads of the worker pool.   *)
(* Both handlers are plain defs; a thread holds the RatchetState object of *)
(* SESSIONS[key] and can be preempted between any two statements of        *)
(* ratchet_encrypt and ratchet_decrypt.  /session/init is taken while no   *)
(* thread is in flight and one /message/poll runs at a time, so that the   *)
(* object a thread holds is the one SESSIONS[key] and INBOX[u] name.       *)
(***************************************************************************)
\* the threads that are inside /message/send
Sending == {t \in Running : thr[t].op = "send"}

\* the threads that are inside /message/poll
Polling == {t \in Running : thr[t].op = "poll"}

\* the pool hands a request to an idle worker; the workers are alike, so
\* the one of least number stands for any of them
FreeThread(t) ==
    /\ t \in Threads \ Running
    /\ \A t2 \in Threads \ Running : t <= t2

\* key = (sender_id, receiver_id); if key not in SESSIONS: return error;
\* state = SESSIONS[key]
send_begin(t, s, r, text) ==
    /\ FreeThread(t)
    /\ inits + nonces + decrypts + Cardinality(Running) < MaxCalls
    /\ nonces + Cardinality(Sending) < MaxMsgs
    /\ thr' = DictSet(thr, t,
           [op |-> "send", key |-> <<s, r>>, text |-> text,
            pc |-> IF <<s, r>> \in DOMAIN SESSIONS THEN "kdf" ELSE "return",
            ck_in |-> <<>>, new_ck |-> <<>>, msg_key |-> <<>>,
            result |-> [op |-> "message_send",
                        error |-> "session not initialized"]])
    /\ UNCHANGED <<tables, CALL_CONNECTIONS, counters, resp, logs, observers,
                   observers6>>

\* new_ck, msg_key = _kdf_chain(state.chain_key_send, usage = b"send")
send_kdf(t) ==
    /\ t \in Sending
    /\ thr[t].pc = "kdf"
    /\ LET ck  == SESSIONS[thr[t].key].chain_key_send
           kdf == v6_kdf_chain(ck, <<"send">>)
       IN  thr' = [thr EXCEPT ![t].pc = "store", ![t].ck_in = ck,
                              ![t].new_ck = kdf.new_chain,
                              ![t].msg_key = kdf.msg_key]
    /\ UNCHANGED <<tables, CALL_CONNECTIONS, counters, resp, logs, observers,
                   observers6>>

\* state.chain_key_send = new_ck
send_store(t) ==
    /\ t \in Sending
    /\ thr[t].pc = "store"
    /\ SESSIONS' = [SESSIONS EXCEPT
                       ![thr[t].key].chain_key_send = thr[t].new_ck]
    /\ thr' = [thr EXCEPT ![t].pc = "encrypt"]
    /\ UNCHANGED <<USERS, PREKEYS, INBOX, CALL_CONNECTIONS, counters, resp,
                   logs, observers, observers6>>

\* the rest of ratchet_encrypt (nonce, aes.encrypt, the packet) and the
\* append to INBOX[receiver_id]
send_encrypt(t) ==
    /\ t \in Sending
    /\ thr[t].pc = "encrypt"
    /\ LET key    == thr[t].key
           nonce  == Urandom(nonces + 1)
           ct     == AesEncrypt(thr[t].msg_key, nonce,
                                utf8_encode(thr[t].text))
           packet == [nonce_b64 |-> b64e(nonce), ct_b64 |-> b64e(ct)]
       IN  /\ INBOX' = DictSet(INBOX, key[2],
                   Append(DictGetList(INBOX, key[2]),
                          [from |-> key[1], packet |-> packet]))
           /\ encLog' = [encLog EXCEPT ![key] =
                   Append(@, [msg_key |-> thr[t].msg_key,
                              text |-> thr[t].text, packet |-> packet,
                              ck_in |-> thr[t].ck_in,
                              ck_at_encrypt |-> SESSIONS[key].chain_key_send,
                              after |-> SESSIONS[key]])]
    /\ nonces' = nonces + 1
    /\ thr' = [thr EXCEPT ![t].pc = "return",
                          ![t].result = [op |-> "message_send",
                                         status |-> "sent"]]
    /\ UNCHANGED <<USERS, PREKEYS, SESSIONS, CALL_CONNECTIONS, uuids, inits,
                   resp, observers, observers6>>

\* msgs = INBOX.get(user_id, []); result = []
poll_begin(t, u) ==
    /\ FreeThread(t)
    /\ inits + nonces + decrypts + Cardinality(Running) < MaxCalls
    /\ Polling = {}
    /\ thr' = DictSet(thr, t,
           [op |-> "poll", pc |-> "loop", u |-> u, i |-> 1,
            fresh |-> u \notin DOMAIN INBOX, key |-> <<0, u>>,
            new_ck |-> <<>>, msg_key |-> <<>>,
            result |-> [op |-> "message_poll", messages |-> <<>>]])
    /\ UNCHANGED <<tables, CALL_CONNECTIONS, counters, resp, logs, observers,
                   observers6>>

\* the list object msgs names: the live INBOX[user_id], or the default []
poll_msgs(t) == IF thr[t].fresh THEN <<>> ELSE INBOX[thr[t].u]

\* for item in msgs: ...; if key not in SESSIONS: continue;
\* state = SESSIONS[key]
poll_next(t) ==
    /\ t \in Polling
    /\ thr[t].pc = "loop"
    /\ LET msgs == poll_msgs(t)
           i    == thr[t].i
       IN  IF i > Len(msgs)
           THEN thr' = [thr EXCEPT ![t].pc = "reset"]
           ELSE LET key == <<msgs[i].from, thr[t].u>>
                IN  IF key \notin DOMAIN SESSIONS
                    THEN thr' = [thr EXCEPT ![t].i = i + 1]
                    ELSE thr' = [thr EXCEPT ![t].pc = "kdf", ![t].key = key]
    /\ UNCHANGED <<tables, CALL_CONNECTIONS, counters, resp, logs, observers,
                   observers6>>

\* new_ck, msg_key = _kdf_chain(state.chain_key_recv, usage = b"recv")
poll_kdf(t) ==
    /\ t \in Polling
    /\ thr[t].pc = "kdf"
    /\ decrypts < MaxDecrypts
    /\ LET kdf == v6_kdf_chain(SESSIONS[thr[t].key].chain_key_recv,
                               <<"recv">>)
       IN  thr' = [thr EXCEPT ![t].pc = "store",
                              ![t].new_ck = kdf.new_chain,
                              ![t].msg_key = kdf.msg_key]
    /\ decrypts' = decrypts + 1
    /\ UNCHANGED <<tables, CALL_CONNECTIONS, counters, resp, logs, observers,
                   decCalls, lastDec>>

\* state.chain_key_recv = new_ck
poll_store(t) ==
    /\ t \in Polling
    /\ thr[t].pc = "store"
    /\ SESSIONS' = [SESSIONS EXCEPT
                       ![thr[t].key].chain_key_recv = thr[t].new_ck]
    /\ thr' = [thr EXCEPT ![t].pc = "decrypt"]
    /\ UNCHANGED <<USERS, PREKEYS, INBOX, CALL_CONNECTIONS, counters, resp,
                   logs, observers, observers6>>

\* the rest of ratchet_decrypt (aes.decrypt raises InvalidTag on a tag that
\* does not verify), SESSIONS[key] = new_state (the same object) and
\* result.append
poll_decrypt(t) ==
    /\ t \in Polling
    /\ thr[t].pc = "decrypt"
    /\ LET packet == poll_msgs(t)[thr[t].i].packet
           nonce  == b64d(packet.nonce_b64)
           ct     == b64d(packet.ct_b64)
       IN  IF AesTagOk(thr[t].msg_key, nonce, ct)
           THEN thr' = [thr EXCEPT
                   ![t].pc = "loop", ![t].i = @ + 1,
                   ![t].result.messages = Append(@,
                       [from |-> thr[t].key[1],
                        text |-> utf8_decode(
                            AesPlain(thr[t].msg_key, nonce, ct))])]
           ELSE thr' = [thr EXCEPT
                   ![t].pc = "return",
                   ![t].result = [op |-> "message_poll",
                                  raised |-> "InvalidTag"]]
    /\ UNCHANGED <<tables, CALL_CONNECTIONS, counters, resp, logs, observers,
                   observers6>>

\* INBOX[user_id] = []
poll_reset(t) ==
    /\ t \in Polling
    /\ thr[t].pc = "reset"
    /\ INBOX' = DictSet(INBOX, thr[t].u, <<>>)
    /\ thr' = [thr EXCEPT ![t].pc = "return"]
    /\ UNCHANGED <<USERS, PREKEYS, SESSIONS, CALL_CONNECTIONS, counters, resp,
                   logs, observers, observers6>>

\* the response leaves the server, or the exception becomes a 500
handler_return(t) ==
    /\ t \in Running
    /\ thr[t].pc = "return"
    /\ resp' = thr[t].result
    /\ thr' = [t2 \in Running \ {t} |-> thr[t2]]
    /\ UNCHANGED <<tables, CALL_CONNECTIONS, counters, logs, observers,
                   observers6>>

NextSend ==
    \/ \E username \in Usernames : v6_register(username) /\ Frame6
    \/ \E s, r \in KnownIds :
           /\ Running = {}
           /\ inits + nonces + decrypts < MaxCalls
           /\ v6_session_init(s, r) /\ Frame6
    \/ \E t \in Threads : \E s, r \in KnownIds, text \in Texts :
           send_begin(t, s, r, text)
    \/ \E t \in Threads : send_kdf(t)
    \/ \E t \in Threads : send_store(t)
    \/ \E t \in Threads : send_encrypt(t)
    \/ \E t \in Threads : \E u \in KnownIds : poll_begin(t, u)
    \/ \E t \in Threads : poll_next(t)
    \/ \E t \in Threads : poll_kdf(t)
    \/ \E t \in Threads : poll_store(t)
    \/ \E t \in Threads : poll_decrypt(t)
    \/ \E t \in Threads : poll_reset(t)
    \/ \E t \in Threads : handler_return(t)

SpecSend == Init /\ [][NextSend]_vars

(***************************************************************************)
(* x3dh_sender as a function of its arguments: the sender's identity key,  *)
(* an ephemeral key, a recipient bundle as a caller holds it (the genuine  *)
(* one, one whose signed prekey was substituted, one whose signature was   *)
(* replaced) and the optional one-time prekey                              *)
(***************************************************************************)
\* the recipient bundles a caller can pass: identity key of user o, signed
\* prekey of user k, and a signature field
BundleInputs ==
    {[identity_pub_b64      |-> generate_identity(o).identity_pub_b64,
      signed_prekey_pub_b64 |-> generate_identity(k).signed_prekey_pub_b64,
      signed_prekey_sig_b64 |-> sig] :
        o \in UserIds, k \in UserIds,
        sig \in {generate_identity(u).signed_prekey_sig_b64 : u \in UserIds}
                  \cup {b64e(<<"forged">>)}}

\* the one-time prekeys a caller can pass: none, or one a user published
OnetimeInputs ==
    {None} \cup {generate_onetime_prekeys(PrekeysPerUser, o)[i].pub_b64 :
                    o \in UserIds, i \in 1..PrekeysPerUser}

\* the arguments of one x3dh_sender call, on the frame of the calling thread
InitBundle ==
    /\ USERS = Idle
    /\ PREKEYS = Idle
    /\ SESSIONS = Idle
    /\ INBOX = Idle
    /\ CALL_CONNECTIONS = {}
    /\ uuids = 0
    /\ inits = 0
    /\ nonces = 0
    /\ decrypts = 0
    /\ resp = [op |-> "start"]
    /\ encLog = Idle
    /\ delivered = {}
    /\ handed = <<>>
    /\ decCalls = Idle
    /\ lastDec = NoDec
    /\ \E s \in UserIds, serial \in 1..MaxInits :
       \E bundle \in BundleInputs, onetime \in OnetimeInputs :
           thr = [t \in {1} |->
                    [op |-> "x3dh_sender", pc |-> "call",
                     identity_priv_b64 |->
                         generate_identity(s).identity_priv_b64,
                     eph_priv_b64 |-> generate_ephemeral_key_b64(serial),
                     recv_bundle |-> bundle,
                     onetime_prekey_pub_b64 |-> onetime]]

\* master_secret = x3dh_sender(identity_priv_b64, eph_priv_b64,
\*                             recv_bundle, onetime_prekey_pub_b64)
x3dh_call(t) ==
    /\ t \in Running
    /\ thr[t].pc = "call"
    /\ resp' = [op |-> "x3dh_sender",
                master_secret |->
                    x3dh_sender(thr[t].identity_priv_b64,
                                thr[t].eph_priv_b64, thr[t].recv_bundle,
                                thr[t].onetime_prekey_pub_b64)]
    /\ thr' = [thr EXCEPT ![t].pc = "returned"]
    /\ UNCHANGED <<tables, CALL_CONNECTIONS, counters, logs, observers,
                   observers6>>

NextBundle == \E t \in Threads : x3dh_call(t)

SpecBundle == InitBundle /\ [][NextBundle]_vars

(***************************************************************************)
(* The v7 engine on a pair of session states: ratchet_encrypt called on    *)
(* one state again and again, and the packets handed to ratchet_decrypt in  *)
(* any order.  The pair of states is the one session_init stores for a     *)
(* master secret of x3dh_sender.                                           *)
(***************************************************************************)
\* number of ratchet_encrypt calls made on the pair of states
MaxPackets == 3

\* the two states session_init stores, for some sender, recipient,
\* ephemeral key and optional one-time prekey
InitOrder ==
    /\ USERS = Idle
    /\ PREKEYS = Idle
    /\ INBOX = Idle
    /\ CALL_CONNECTIONS = {}
    /\ uuids = 0
    /\ inits = 0
    /\ nonces = 0
    /\ decrypts = 0
    /\ resp = [op |-> "start"]
    /\ delivered = {}
    /\ handed = <<>>
    /\ decCalls = Idle
    /\ lastDec = NoDec
    /\ thr = Idle
    /\ \E s, r \in UserIds, serial \in 1..MaxInits :
       \E onetime \in {None,
                       generate_onetime_prekeys(PrekeysPerUser, r)[1].pub_b64} :
           LET ident == generate_identity(r)
               master_secret ==
                   x3dh_sender(generate_identity(s).identity_priv_b64,
                       generate_ephemeral_key_b64(serial),
                       [identity_pub_b64 |-> ident.identity_pub_b64,
                        signed_prekey_pub_b64 |-> ident.signed_prekey_pub_b64,
                        signed_prekey_sig_b64 |-> ident.signed_prekey_sig_b64],
                       onetime)
           IN  /\ SESSIONS = DictSet(DictSet(Idle, <<s, r>>,
                                         v7_RatchetState(master_secret)),
                                     <<r, s>>, v7_RatchetState(master_secret))
               /\ encLog = DictSet(DictSet(Idle, <<s, r>>, <<>>),
                                   <<r, s>>, <<>>)

\* packet = ratchet_encrypt(SESSIONS[(s, r)], text)
order_encrypt(s, r, text) ==
    /\ <<s, r>> \in DOMAIN SESSIONS
    /\ nonces < MaxPackets
    /\ LET e == v7_ratchet_encrypt(SESSIONS[<<s, r>>], text,
                                   Urandom(nonces + 1))
       IN  /\ SESSIONS' = [SESSIONS EXCEPT ![<<s, r>>] = e.state]
           /\ encLog' = [encLog EXCEPT ![<<s, r>>] =
                   Append(@, [msg_key |-> e.msg_key, text |-> text,
                              packet |-> e.packet])]
           /\ resp' = [op |-> "ratchet_encrypt", packet |-> e.packet]
    /\ nonces' = nonces + 1
    /\ UNCHANGED <<USERS, PREKEYS, INBOX, CALL_CONNECTIONS, uuids, inits,
                   delivered, handed, observers6, thr>>

\* the n-th packet of session (s, r), not handed over before, goes to
\* ratchet_decrypt on the state stored under k, one of the pair:
\* plaintext, new_state = ratchet_decrypt(SESSIONS[k], packet);
\* SESSIONS[k] = new_state
order_decrypt(s, r, n, k) ==
    /\ <<s, r>> \in DOMAIN SESSIONS
    /\ n \in DOMAIN encLog[<<s, r>>]
    /\ k \in {<<s, r>>, <<r, s>>}
    /\ LET packet == encLog[<<s, r>>][n].packet
           d      == v7_ratchet_decrypt(SESSIONS[k], packet)
       IN  /\ \A e \in delivered : <<e[1], e[2], e[3]>> # <<s, r, packet>>
           /\ SESSIONS' = [SESSIONS EXCEPT ![k] = d.state]
           /\ delivered' = delivered \cup
                  {<<s, r, packet, Cardinality(delivered) + 1>>}
           /\ lastDec' = [k |-> n, session |-> <<s, r>>, packet |-> packet,
                          msg_key |-> d.msg_key, raised |-> d.raised,
                          plaintext |-> d.plaintext,
                          before |-> SESSIONS[k], after |-> d.state]
           /\ resp' = IF d.raised = ""
                      THEN [op |-> "ratchet_decrypt",
                            plaintext |-> d.plaintext]
                      ELSE [op |-> "ratchet_decrypt", raised |-> d.raised]
    /\ UNCHANGED <<USERS, PREKEYS, INBOX, CALL_CONNECTIONS, counters, logs,
                   handed, decCalls, decrypts, thr>>

NextOrder ==
    \/ \E s, r \in UserIds, text \in Texts : order_encrypt(s, r, text)
    \/ \E s, r \in UserIds, n \in 1..MaxPackets :
           \E k \in {<<s, r>>, <<r, s>>} : order_decrypt(s, r, n, k)

SpecOrder == InitOrder /\ [][NextOrder]_vars

(***************************************************************************)
(* The v7 backend with its polls observed: lastDec keeps the last          *)
(* ratchet_decrypt call a poll made, and how it ended                      *)
(***************************************************************************)
\* the positions in INBOX[user_id] of the items poll calls ratchet_decrypt
\* for
PollCalls(user_id) ==
    {i \in DOMAIN DictGetList(INBOX, user_id) :
        <<INBOX[user_id][i].from, user_id>> \in DOMAIN SESSIONS}

\* the largest number of a non-empty set of numbers
Last(S) == CHOOSE i \in S : \A j \in S : j <= i

PollObserved(u) ==
    /\ v7_poll(u)
    /\ lastDec' =
           IF PollCalls(u) = {} THEN lastDec
           ELSE LET i    == Last(PollCalls(u))
                    item == INBOX[u][i]
                    key  == <<item.from, u>>
                    d    == v7_ratchet_decrypt(SESSIONS[key], item.packet)
                IN  [k |-> i, session |-> key, packet |-> item.packet,
                     msg_key |-> d.msg_key, raised |-> d.raised,
                     plaintext |-> d.plaintext,
                     before |-> SESSIONS[key], after |-> d.state]

FramePoll == UNCHANGED <<observers, observers6>>

NextPoll ==
    \/ \E username \in Usernames : register(username) /\ FramePoll
    \/ \E s, r \in KnownIds : v7_session_init(s, r) /\ FramePoll
    \/ \E s, r \in KnownIds, text \in Texts :
           v7_message_send(s, r, text) /\ FramePoll
    \/ \E u \in KnownIds :
           PollObserved(u) /\ UNCHANGED <<observers, decCalls, decrypts>>

SpecPoll == Init /\ [][NextPoll]_vars

(***************************************************************************)
(* v7 /register, /bundle, /session/init and /zerotrace/wipe one call at a  *)
(* time, with one /session/init more than a pool has keys, so that a pool  *)
(* runs empty; an observer records each one-time prekey a call reports to  *)
(* have used                                                               *)
(***************************************************************************)
\* POST /session/init and what an observer of the pool of r sees of it
session_init_observed(s, r) ==
    /\ inits <= PrekeysPerUser
    /\ v7_session_init_body(s, r)
    /\ handed' = IF /\ "used_one_time_prekey" \in DOMAIN resp'
                    /\ resp'.used_one_time_prekey
                 THEN Append(handed,
                          [r |-> r, pub_b64 |-> Head(PREKEYS[r]).pub_b64])
                 ELSE handed

NextPrekeys ==
    \/ \E username \in Usernames : register(username) /\ Frame7
    \/ \E user_id \in KnownIds : get_bundle(user_id) /\ Frame7
    \/ \E s, r \in KnownIds :
           session_init_observed(s, r) /\ UNCHANGED <<delivered, observers6>>
    \/ \E secret \in AdminSecrets : wipe(secret) /\ Frame7

SpecPrekeys == Init /\ [][NextPrekeys]_vars

(***************************************************************************)
(* v7 /message/send and /message/poll on the threads of the worker pool.   *)
(* Both handlers are plain defs.  msgs in poll names the list object that  *)
(* INBOX[user_id] held when the call began, the for loop reads that list   *)
(* by index, so it sees what a concurrent append adds, and the final       *)
(* INBOX[user_id] = [] replaces the object.  /session/init is taken while  *)
(* no thread is in flight and one /message/poll runs at a time, so that    *)
(* the list a poll holds is the one INBOX[user_id] names.                  *)
(***************************************************************************)
\* session_key = (sender_id, receiver_id); if session_key not in SESSIONS:
\* return error
v7_send_begin(t, s, r, text) ==
    /\ FreeThread(t)
    /\ inits + nonces + Cardinality(Sending) < MaxCalls
    /\ nonces + Cardinality(Sending) < MaxMsgs
    /\ thr' = DictSet(thr, t,
           [op |-> "send", key |-> <<s, r>>, text |-> text,
            pc |-> IF <<s, r>> \in DOMAIN SESSIONS THEN "append" ELSE "return",
            result |-> [op |-> "message_send",
                        error |-> "session not initialized"]])
    /\ UNCHANGED <<tables, CALL_CONNECTIONS, counters, resp, logs, observers,
                   observers6>>

\* packet = ratchet_encrypt(SESSIONS[session_key], text);
\* INBOX.setdefault(receiver_id, []).append(...)
v7_send_append(t) ==
    /\ t \in Sending
    /\ thr[t].pc = "append"
    /\ LET key == thr[t].key
           e   == v7_ratchet_encrypt(SESSIONS[key], thr[t].text,
                                     Urandom(nonces + 1))
       IN  /\ INBOX' = DictSet(INBOX, key[2],
                   Append(DictGetList(INBOX, key[2]),
                          [from |-> key[1], packet |-> e.packet]))
           /\ encLog' = [encLog EXCEPT ![key] =
                   Append(@, [msg_key |-> e.msg_key, text |-> thr[t].text,
                              packet |-> e.packet])]
    /\ nonces' = nonces + 1
    /\ thr' = [thr EXCEPT ![t].pc = "return",
                          ![t].result = [op |-> "message_send",
                                         status |-> "sent"]]
    /\ UNCHANGED <<USERS, PREKEYS, SESSIONS, CALL_CONNECTIONS, uuids, inits,
                   resp, observers, observers6>>

\* msgs = INBOX.get(user_id, []); result = []
v7_poll_begin(t, u) ==
    /\ FreeThread(t)
    /\ Polling = {}
    /\ thr' = DictSet(thr, t,
           [op |-> "poll", pc |-> "loop", u |-> u, i |-> 1,
            fresh |-> u \notin DOMAIN INBOX,
            result |-> [op |-> "poll", messages |-> <<>>]])
    /\ UNCHANGED <<tables, CALL_CONNECTIONS, counters, resp, logs, observers,
                   observers6>>

\* the list object msgs names: the live INBOX[user_id], or the default []
v7_poll_msgs(t) == IF thr[t].fresh THEN <<>> ELSE INBOX[thr[t].u]

\* one round of for item in msgs: skip without a session, decrypt and
\* append to result, or skip on InvalidTag; the loop ends when the index
\* is past the end of the list
v7_poll_next(t) ==
    /\ t \in Polling
    /\ thr[t].pc = "loop"
    /\ LET msgs == v7_poll_msgs(t)
           i    == thr[t].i
       IN  IF i > Len(msgs)
           THEN /\ thr' = [thr EXCEPT ![t].pc = "reset"]
                /\ UNCHANGED SESSIONS
           ELSE LET key == <<msgs[i].from, thr[t].u>>
                IN  IF key \notin DOMAIN SESSIONS
                    THEN /\ thr' = [thr EXCEPT ![t].i = i + 1]
                         /\ UNCHANGED SESSIONS
                    ELSE LET d == v7_ratchet_decrypt(SESSIONS[key],
                                                     msgs[i].packet)
                         IN  IF d.raised = ""
                             THEN /\ SESSIONS' = [SESSIONS EXCEPT
                                                     ![key] = d.state]
                                  /\ thr' = [thr EXCEPT
                                         ![t].i = i + 1,
                                         ![t].result.messages = Append(@,
                                             [from |-> key[1],
                                              text |-> d.plaintext])]
                             ELSE /\ thr' = [thr EXCEPT ![t].i = i + 1]
                                  /\ UNCHANGED SESSIONS
    /\ UNCHANGED <<USERS, PREKEYS, INBOX, CALL_CONNECTIONS, counters, resp,
                   logs, observers, observers6>>

\* INBOX[user_id] = []
v7_poll_reset(t) ==
    /\ t \in Polling
    /\ thr[t].pc = "reset"
    /\ INBOX' = DictSet(INBOX, thr[t].u, <<>>)
    /\ thr' = [thr EXCEPT ![t].pc = "return"]
    /\ UNCHANGED <<USERS, PREKEYS, SESSIONS, CALL_CONNECTIONS, counters, resp,
                   logs, observers, observers6>>

NextInbox ==
    \/ \E username \in Usernames : register(username) /\ Frame7
    \/ \E s, r \in KnownIds :
           /\ Running = {}
           /\ inits + nonces < MaxCalls
           /\ v7_session_init(s, r) /\ Frame7
    \/ \E t \in Threads : \E s, r \in KnownIds, text \in Texts :
           v7_send_begin(t, s, r, text)
    \/ \E t \in Threads : v7_send_append(t)
    \/ \E t \in Threads : \E u \in KnownIds : v7_poll_begin(t, u)
    \/ \E t \in Threads : v7_poll_next(t)
    \/ \E t \in Threads : v7_poll_reset(t)
    \/ \E t \in Threads : handler_return(t)

SpecInbox == Init /\ [][NextInbox]_vars

(***************************************************************************)
(* The v7 backend with its call sockets: /register, /session/init,         *)
(* /message/send and /zerotrace/wipe one call at a time, and clients that  *)
(* open and close /call/{user_id}                                          *)
(***************************************************************************)
NextWipe ==
    \/ \E username \in Usernames : register(username) /\ Frame7
    \/ \E s, r \in KnownIds : v7_session_init(s, r) /\ Frame7
    \/ \E s, r \in KnownIds, text \in Texts :
           v7_message_send(s, r, text) /\ Frame7
    \/ \E user_id \in KnownIds : call_socket_connect(user_id) /\ Frame7
    \/ \E user_id \in KnownIds : call_socket_disconnect(user_id) /\ Frame7
    \/ \E secret \in AdminSecrets : wipe(secret) /\ Frame7

SpecWipe == Init /\ [][NextWipe]_vars

(***************************************************************************)
(* Claims                                                                  *)
(***************************************************************************)
\* the k-th ratchet_decrypt on a v6 state was given the packet of the k-th
\* ratchet_encrypt on that state
LastDecIsAligned ==
    /\ lastDec.k > 0
    /\ lastDec.session \in DOMAIN encLog
    /\ decCalls[lastDec.session] = lastDec.k
    /\ lastDec.k <= Len(encLog[lastDec.session])
    /\ encLog[lastDec.session][lastDec.k].packet = lastDec.packet

\* C1 (checked under SpecV6): round trip of the v6 chained engine.  The
\* k-th ratchet_decrypt on a session state, given the packet of the k-th
\* ratchet_encrypt on it, derives the message key of that encrypt call and
\* returns the text that was sent, and no message_poll ends in an exception.
C1_RoundTrip ==
    /\ LastDecIsAligned =>
         LET e == encLog[lastDec.session][lastDec.k]
         IN  /\ lastDec.msg_key = e.msg_key
             /\ lastDec.raised = ""
             /\ lastDec.plaintext = e.text
    /\ resp.op = "message_poll" => "raised" \notin DOMAIN resp

\* C2 (checked under SpecV6): a v6 ratchet_decrypt that raises leaves the
\* RatchetState as it was before the call (root_key, chain_key_send and
\* chain_key_recv all unchanged).
C2_FailedDecryptKeepsState ==
    (lastDec.k > 0 /\ lastDec.raised # "") => lastDec.after = lastDec.before

\* C6 (checked under SpecReplay): replay rejection in v7.  A
\* /message/receive call with a packet that the state of its session has
\* decrypted before ends in an error.
C6_ReplayRejected ==
    [][\A s, r \in KnownIds : \A c \in PacketInputs :
          (ReplayReceive(s, r, c) /\ <<s, r, c>> \in delivered)
              => "error" \in DOMAIN resp']_vars

\* C7 (checked under SpecV6): in every run of ratchet_encrypt calls on one
\* v6 RatchetState the sending chain key has been replaced by its successor
\* when the plaintext is encrypted, and the message keys of the calls are
\* pairwise different.
C7_NoKeyReuse ==
    \A key \in DOMAIN encLog :
        \A i \in DOMAIN encLog[key] :
            LET e == encLog[key][i]
            IN  /\ e.ck_at_encrypt # e.ck_in
                /\ e.ck_at_encrypt = hkdf(e.ck_in, <<>>, <<"ck", "send">>)
                /\ \A j \in DOMAIN encLog[key] :
                       i # j => encLog[key][j].msg_key # e.msg_key

\* C7 witness: two ratchet_encrypt calls have run on one v6 state
C7_Witness ==
    \E key \in DOMAIN encLog :
        /\ Len(encLog[key]) >= 2
        /\ "ck_in" \in DOMAIN encLog[key][1]

\* C8 (checked under Spec): in v7 no two message_send calls of one pair of
\* users, in the same or in opposite directions, encrypt under the same
\* message key.
C8_NoKeyReuseV7 ==
    \A s, r \in UserIds :
        \A a, b \in {<<k, i>> \in
                        ({<<s, r>>, <<r, s>>} \cap DOMAIN encLog)
                            \X (1..MaxMsgs) : i \in DOMAIN encLog[k]} :
            a # b => encLog[a[1]][a[2]].msg_key # encLog[b[1]][b[2]].msg_key

\* the fields of a v6 RatchetState
StateKeys(state) ==
    {state.root_key, state.chain_key_send, state.chain_key_recv}

\* C9 (checked under SpecV6): forward secrecy of the v6 state.  After a
\* ratchet_encrypt or ratchet_decrypt step the chain key that was the
\* step's input is held in no field of the state.
C9_ForwardSecrecy ==
    /\ \A key \in DOMAIN encLog :
           \A i \in DOMAIN encLog[key] :
               encLog[key][i].ck_in \notin StateKeys(encLog[key][i].after)
    /\ lastDec.k > 0 =>
           lastDec.before.chain_key_recv \notin StateKeys(lastDec.after)

\* C3 (checked under SpecInit): one-time-prekey exclusivity.  No two pops
\* of /session/init calls hand out the same one-time prekey of a recipient,
\* and a prekey that was popped is neither in the recipient's pool nor in
\* the list get_bundle returns for the recipient.
C3_PrekeyExclusive ==
    /\ \A i, j \in DOMAIN handed : i # j => handed[i] # handed[j]
    /\ \A i \in DOMAIN handed :
           LET r    == handed[i].r
               pool == DictGetList(PREKEYS, r)
               body == get_bundle_body(r)
           IN  /\ \A n \in DOMAIN pool : pool[n].pub_b64 # handed[i].pub_b64
               /\ \A n \in DOMAIN body.onetime_prekeys :
                      body.onetime_prekeys[n] # handed[i].pub_b64

\* C3 witness: two calls for the same recipient are in flight at once, each
\* holding a one-time prekey it popped
C3_Witness ==
    \E t1, t2 \in Running :
        /\ t1 # t2
        /\ thr[t1].pc = "x3dh" /\ thr[t2].pc = "x3dh"
        /\ thr[t1].r = thr[t2].r
        /\ thr[t1].onetime # None /\ thr[t2].onetime # None

\* C4 (checked under SpecInit): the test of the pool and the pop are one
\* critical section, so no /session/init call fails because another call
\* emptied the pool between its test and its pop.
C4_AtomicPop == \A t \in Running : thr[t].pc # "raised"

\* the thread has read a chain key of its session's state and has not yet
\* written the successor
InWindow(t) == thr[t].op \in {"send", "poll"} /\ thr[t].pc = "store"

\* chain key ck advanced by n steps of the sending chain
RECURSIVE Advance(_, _)
Advance(ck, n) ==
    IF n = 0 THEN ck
    ELSE Advance(v6_kdf_chain(ck, <<"send">>).new_chain, n - 1)

\* C10 (checked under SpecSend): the v6 operations on one RatchetState are
\* serialized.  No two calls on the same SESSIONS[(s, r)] are both between
\* reading a chain key and writing its successor, the message keys of the
\* message_send calls of a session are pairwise different, and once the
\* calls have returned chain_key_send is the session's first chain key
\* advanced once per message sent.
C10_Serialized ==
    /\ \A t1, t2 \in Running :
           (t1 # t2 /\ InWindow(t1) /\ InWindow(t2))
               => thr[t1].key # thr[t2].key
    /\ \A key \in DOMAIN encLog :
           \A i, j \in DOMAIN encLog[key] :
               i # j => encLog[key][i].msg_key # encLog[key][j].msg_key
    /\ Running = {} =>
           \A key \in DOMAIN SESSIONS :
               SESSIONS[key].chain_key_send =
                   Advance(SESSIONS[key].root_key, Len(encLog[key]))

\* the signature field of the bundle is the one generate_identity makes
\* for the owner of the bundle's identity key over the bundle's signed
\* prekey
BundleVerifies(bundle) ==
    \E o \in UserIds :
        /\ bundle.identity_pub_b64 = generate_identity(o).identity_pub_b64
        /\ b64d(bundle.signed_prekey_sig_b64) =
               hkdf(b64d(bundle.signed_prekey_pub_b64),
                    b64d(generate_identity(o).identity_priv_b64), <<"sig">>)

C11_Symmetric ==
    Running = {} =>
        \A s, r \in UserIds :
            /\ <<s, r>> \in DOMAIN SESSIONS <=> <<r, s>> \in DOMAIN SESSIONS
            /\ <<s, r>> \in DOMAIN SESSIONS =>
                   SESSIONS[<<s, r>>].root_key = SESSIONS[<<r, s>>].root_key
\* the entry of encLog that produced the packet of an inbox item, for an
\* item sent on the session state its pair holds now
SentEntry(from, to, packet) ==
    LET log == encLog[<<from, to>>]
    IN  log[CHOOSE i \in DOMAIN log : log[i].packet = packet]

\* every item of INBOX[u] was sent on the state its session holds now,
\* that is after the last session_init of its pair
AllCurrent(u) ==
    \A i \in DOMAIN DictGetList(INBOX, u) :
        LET item == INBOX[u][i]
        IN  /\ <<item.from, u>> \in DOMAIN encLog
            /\ \E n \in DOMAIN encLog[<<item.from, u>>] :
                   encLog[<<item.from, u>>][n].packet = item.packet

\* C12 (checked under Spec): end-to-end exchange in v7.  With the sessions
\* of a pair established by session_init and not re-initialised since,
\* poll(u) returns every message sent to u, with its sender and the text
\* that was sent, and message_send in the reverse direction of an
\* established session is accepted without a further session_init.
C12_EndToEnd ==
    [][/\ (resp'.op = "poll") =>
              (\A u \in KnownIds :
                  (v7_poll(u) /\ AllCurrent(u)) =>
                      (resp'.messages =
                          [i \in DOMAIN DictGetList(INBOX, u) |->
                              [from |-> INBOX[u][i].from,
                               text |-> SentEntry(INBOX[u][i].from, u,
                                                  INBOX[u][i].packet).text]]))
       /\ (resp'.op = "message_send") =>
              (\A s, r \in KnownIds : \A text \in Texts :
                  (v7_message_send(r, s, text)
                      /\ <<s, r>> \in DOMAIN SESSIONS)
                  => (resp'.status = "sent"))]_vars

\* C12 witness: one session_init(1, 2) was made, both messages of an
\* exchange were sent, and the last poll returned to user 1 a message that
\* user 2 sent in the reverse direction
C12_Witness ==
    /\ inits = 1
    /\ nonces = 2
    /\ <<1, 2>> \in DOMAIN SESSIONS
    /\ Len(PREKEYS[2]) = PrekeysPerUser - 1
    /\ Len(encLog[<<1, 2>>]) = 1 /\ Len(encLog[<<2, 1>>]) = 1
    /\ resp.op = "poll"
    /\ Len(resp.messages) = 1
    /\ resp.messages[1] = [from |-> 2, text |-> encLog[<<2, 1>>][1].text]
    /\ INBOX[1] = <<>> /\ INBOX[2] = <<>>
\* C13 (checked under SpecOrder): out-of-order delivery in the v7 engine.
\* Whatever the order in which the packets of successive ratchet_encrypt
\* calls on a session reach ratchet_decrypt on a state of the pair, every
\* decryption returns, with the plaintext that was encrypted into the
\* packet.
C13_OutOfOrder ==
    lastDec.k > 0 =>
        /\ lastDec.raised = ""
        /\ lastDec.plaintext = encLog[lastDec.session][lastDec.k].text

\* C13 witness: three packets of one session were decrypted in the order
\* third, first, second
C13_Witness ==
    \E key \in DOMAIN encLog :
        /\ Len(encLog[key]) = 3
        /\ <<key[1], key[2], encLog[key][3].packet, 1>> \in delivered
        /\ <<key[1], key[2], encLog[key][1].packet, 2>> \in delivered
        /\ <<key[1], key[2], encLog[key][2].packet, 3>> \in delivered
        /\ lastDec.k = 2
\* C14 (checked under SpecV6): a decryption failure in v6 is confined to
\* its packet.  Every message_poll(u) call, also one in which
\* ratchet_decrypt fails on an item, returns a list of messages and leaves
\* INBOX[u] empty; no exception leaves the handler and no item stays in the
\* inbox.
C14_FailureConfined ==
    [][\A u \in KnownIds :
          v6_message_poll(u) =>
              /\ "messages" \in DOMAIN resp'
              /\ "raised" \notin DOMAIN resp'
              /\ INBOX'[u] = <<>>]_vars
\* the step returned an error and left USERS, PREKEYS, SESSIONS and INBOX
\* as they were
RefusedUnchanged == "error" \in DOMAIN resp' /\ UNCHANGED tables

\* C15 (checked under Spec): session not found.  message_send(s, r, text)
\* and receive_message(s, r, packet), called when (s, r) is no key of
\* SESSIONS, return an error and leave USERS, PREKEYS, SESSIONS and INBOX
\* as they were: no INBOX[r] and no session is created.  (A step is either
\* such a refusal, or it is no call of the two handlers for a pair without
\* a session.)
C15_NoSessionNoChange ==
    [][/\ (resp'.op = "message_send") =>
              \/ RefusedUnchanged
              \/ \A s, r \in KnownIds : \A text \in Texts :
                     ~(<<s, r>> \notin DOMAIN SESSIONS
                          /\ v7_message_send(s, r, text))
       /\ (resp'.op = "receive_message") =>
              \/ RefusedUnchanged
              \/ \A s, r \in KnownIds : \A c \in PacketInputs :
                     ~(<<s, r>> \notin DOMAIN SESSIONS
                          /\ v7_receive_message(s, r, c))]_vars

\* the same for message_send of the v6 backend, under SpecV6
C15_NoSessionNoChangeV6 ==
    [][(resp'.op = "message_send") =>
          \/ RefusedUnchanged
          \/ \A s, r \in KnownIds : \A text \in Texts :
                 ~(<<s, r>> \notin DOMAIN SESSIONS
                      /\ v6_message_send(s, r, text))]_vars

\* C15 witness: message_send was refused for want of a session while
\* sessions of other pairs and a filled inbox exist
C15_Witness ==
    /\ resp.op = "message_send"
    /\ "error" \in DOMAIN resp
    /\ SESSIONS # Idle
    /\ \E u \in DOMAIN INBOX : INBOX[u] # <<>>
\* the SESSIONS keys whose entry the step made, dropped or changed
Changed ==
    {k \in DOMAIN SESSIONS \cup DOMAIN SESSIONS' :
        \/ k \notin DOMAIN SESSIONS
        \/ k \notin DOMAIN SESSIONS'
        \/ SESSIONS'[k] # SESSIONS[k]}

\* C16 (checked under SpecV6): sessions of different pairs are independent.
\* message_send(s, r, .) changes no SESSIONS entry but that of (s, r),
\* message_poll(r) none but those of keys (x, r), and session_init(s, r)
\* none but those of (s, r) and (r, s); a change made through one key does
\* not show under another.
C16_Independent ==
    [][\/ Changed = {}
       \/ /\ (resp'.op = "message_send") =>
                 \A s, r \in KnownIds : \A text \in Texts :
                     v6_message_send(s, r, text) => Changed \subseteq {<<s, r>>}
          /\ (resp'.op = "message_poll") =>
                 \A u \in KnownIds :
                     v6_message_poll(u) => \A k \in Changed : k[2] = u
          /\ (resp'.op = "session_init") =>
                 \A s, r \in KnownIds :
                     v6_session_init(s, r) =>
                         Changed \subseteq {<<s, r>>, <<r, s>>}]_vars

\* the same for the handlers of the v7 backend, under Spec
C16_IndependentV7 ==
    [][\/ Changed = {}
       \/ /\ (resp'.op \in {"message_send", "poll", "receive_message"}) =>
                 FALSE
          /\ (resp'.op = "session_init") =>
                 \A s, r \in KnownIds :
                     v7_session_init(s, r) =>
                         Changed \subseteq {<<s, r>>, <<r, s>>}]_vars

\* C16 witness: both directions of a pair have a session, the sending
\* chain of one was advanced by a message and that of the other is still
\* where session_init put it
C16_Witness ==
    /\ {<<1, 2>>, <<2, 1>>} \subseteq DOMAIN SESSIONS
    /\ Len(encLog[<<1, 2>>]) = 1
    /\ SESSIONS[<<1, 2>>].chain_key_send # SESSIONS[<<1, 2>>].root_key
    /\ SESSIONS[<<2, 1>>].chain_key_send = SESSIONS[<<2, 1>>].root_key
    /\ resp.op = "message_send"
\* C17 (checked under SpecPoll): zero-trace delivery in v7.  When poll(u)
\* returns, INBOX[u] is the empty list, whether or not an item failed to
\* decrypt; the messages returned are those of items that were in the
\* inbox, and no item is kept for a later poll.
C17_ZeroTrace ==
    [][(resp'.op = "poll") =>
          \A u \in KnownIds :
              PollObserved(u) =>
                  /\ INBOX'[u] = <<>>
                  /\ Len(resp'.messages) <= Len(DictGetList(INBOX, u))
                  /\ \A m \in DOMAIN resp'.messages :
                         \E i \in DOMAIN INBOX[u] :
                             INBOX[u][i].from = resp'.messages[m].from]_vars

\* C17 witness: the last ratchet_decrypt call of a poll raised InvalidTag,
\* the poll returned all the same, and the inbox it read is empty
C17_Witness ==
    /\ lastDec.k > 0
    /\ lastDec.raised = "InvalidTag"
    /\ resp.op = "poll"
    /\ INBOX[lastDec.session[2]] = <<>>
\* C18 (checked under Spec): the v7 engine never changes a RatchetState.
\* Only session_init and wipe change SESSIONS; message_send, poll and
\* receive_message, returning or failing, leave every entry with the
\* root_key it had: the state ratchet_decrypt hands back, which poll and
\* receive_message store, is the state it was given.
C18_RootKeyKept ==
    [][(resp'.op \notin {"session_init", "wipe"}) => UNCHANGED SESSIONS]_vars

\* C18 witness: two messages were sent and /message/receive has decrypted
\* a packet on a session state
C18_Witness ==
    /\ resp.op = "receive_message"
    /\ "plaintext" \in DOMAIN resp
    /\ nonces = 2
    /\ SESSIONS # Idle

\* the input key material of X3DH a session_init(s, r) call draws while the
\* pool of r is pool: DH1, DH2, DH3 and, if the pool has a key, DH4 of the
\* ephemeral key with the first key of the pool
PoolKeyMaterial(s, r, pool) ==
    LET EKs_priv == b64d(generate_ephemeral_key_b64(inits + 1))
        SPKr_pub == b64d(USERS[r].signed_prekey_pub_b64)
    IN  Exchange(b64d(USERS[s].identity_priv_b64), SPKr_pub)
            \o Exchange(EKs_priv, b64d(USERS[r].identity_pub_b64))
            \o Exchange(EKs_priv, SPKr_pub)
            \o (IF pool = <<>> THEN <<>>
                ELSE Exchange(EKs_priv, b64d(Head(pool).pub_b64)))

\* the number of session_init calls towards r that reported a one-time prekey
PrekeysUsed(r, log) == Cardinality({i \in DOMAIN log : log[i].r = r})

\* C19: with calls taken one at a time, a v7 session_init(s, r) between
\* registered users reports used_one_time_prekey exactly when PREKEYS[r] was
\* non-empty at its start; then the first key of the pool is removed, the
\* pool is one shorter and that key is the DH4 input of X3DH; with an empty
\* pool the session is established all the same, without DH4, and the pool
\* stays empty.  No pool grows outside register, no call other than register,
\* session_init and wipe changes a pool, and at most PrekeysPerUser calls
\* towards one receiver use a prekey.
C19_PoolAccounting ==
    [][/\ \A s, r \in KnownIds :
              (/\ resp'.op = "session_init"
               /\ s \in DOMAIN USERS
               /\ r \in DOMAIN USERS
               /\ session_init_observed(s, r))
              => LET pool == PREKEYS[r]
                 IN  /\ resp'.status = "session_established"
                     /\ resp'.used_one_time_prekey = (pool # <<>>)
                     /\ <<s, r>> \in DOMAIN SESSIONS'
                     /\ SESSIONS'[<<s, r>>].root_key =
                            hkdf(PoolKeyMaterial(s, r, pool), <<>>, <<"X3DH">>)
                     /\ pool # <<>> => /\ PREKEYS'[r] = Tail(pool)
                                       /\ Len(PREKEYS'[r]) = Len(pool) - 1
                     /\ pool = <<>> => PREKEYS'[r] = <<>>
                     /\ \A u \in DOMAIN PREKEYS \ {r} : PREKEYS'[u] = PREKEYS[u]
       /\ resp'.op \notin {"register", "wipe"}
              => \A u \in DOMAIN PREKEYS :
                     /\ u \in DOMAIN PREKEYS'
                     /\ Len(PREKEYS'[u]) <= Len(PREKEYS[u])
       /\ resp'.op \notin {"register", "session_init", "wipe"}
              => UNCHANGED PREKEYS
       /\ \A r \in UserIds : PrekeysUsed(r, handed') <= PrekeysPerUser]_vars

\* C19 for every handler of the v7 backend: only register, session_init and
\* wipe change a pool, and outside register no pool grows
C19_PoolFrame ==
    [][/\ resp'.op \notin {"register", "session_init", "wipe"}
              => UNCHANGED PREKEYS
       /\ resp'.op \notin {"register", "wipe"}
              => \A u \in DOMAIN PREKEYS :
                     /\ u \in DOMAIN PREKEYS'
                     /\ Len(PREKEYS'[u]) <= Len(PREKEYS[u])]_vars

\* a session_init towards a receiver whose pool the earlier calls have used
\* up: the session is established and no one-time prekey is reported
C19_Witness ==
    /\ resp.op = "session_init"
    /\ "status" \in DOMAIN resp
    /\ resp.status = "session_established"
    /\ ~resp.used_one_time_prekey
    /\ \E s, r \in DOMAIN USERS :
           /\ PREKEYS[r] = <<>>
           /\ PrekeysUsed(r, handed) = PrekeysPerUser
           /\ <<s, r>> \in DOMAIN SESSIONS
           /\ SESSIONS[<<s, r>>].root_key =
                  hkdf(Exchange(b64d(USERS[s].identity_priv_b64),
                                b64d(USERS[r].signed_prekey_pub_b64))
                           \o Exchange(b64d(generate_ephemeral_key_b64(inits)),
                                       b64d(USERS[r].identity_pub_b64))
                           \o Exchange(b64d(generate_ephemeral_key_b64(inits)),
                                       b64d(USERS[r].signed_prekey_pub_b64)),
                       <<>>, <<"X3DH">>)

\* the text message_send encrypted into a packet: the ciphertext of the
\* model is symbolic, aesgcm( key nonce utf8 text ), and names its plaintext
SentText(packet) ==
    LET ct == b64d(packet.ct_b64)
    IN  ct[Len(ct) - 1]

\* C20: delivery in v7.  Every message message_send(s, r, text) answered
\* with status sent is returned by the next poll(r), with from = s and the
\* text that was sent, in the order of the sends, whatever register,
\* session_init and message_send calls came between the send and the poll.
\* INBOX[r] holds exactly the messages sent to r since its last poll, so
\* the poll has to return one message per item, in the order of the items.
C20_Delivery ==
    [][(resp'.op = "poll") =>
           \A u \in KnownIds :
               PollObserved(u) =>
                   resp'.messages =
                       [i \in DOMAIN DictGetList(INBOX, u) |->
                           [from |-> INBOX[u][i].from,
                            text |-> SentText(INBOX[u][i].packet)]]]_vars

\* the number of items of its list the loop of the poll on thread t has
\* processed: returned, rejected by decryption or skipped for want of a
\* session
Processed(t) == IF thr[t].fresh THEN 0 ELSE thr[t].i - 1

\* C21: no accepted message is lost to a concurrent poll.  The final
\* INBOX[u] = [] of poll(u) discards only items its loop has processed:
\* every item a concurrent message_send has appended is either processed
\* by the poll or still in INBOX[u] when the poll returns.
C21_NoLostMessage ==
    [][\A t \in Threads :
           (t \in Polling /\ thr[t].pc = "reset" /\ v7_poll_reset(t))
           => Len(DictGetList(INBOX, thr[t].u)) <= Processed(t)]_vars

\* C22: in every state the v7 handlers reach one call at a time, each item
\* of INBOX[u] with from = s has a session under (s, u), s and u are keys
\* of USERS, and every key of SESSIONS is a pair of registered users; so
\* poll finds a session for every item and never takes its skip branch.
C22_InboxHasSession ==
    /\ \A u \in DOMAIN INBOX :
           /\ \A i \in DOMAIN INBOX[u] :
                  /\ <<INBOX[u][i].from, u>> \in DOMAIN SESSIONS
                  /\ INBOX[u][i].from \in DOMAIN USERS
                  /\ u \in DOMAIN USERS
           /\ PollCalls(u) = DOMAIN INBOX[u]
    /\ \A key \in DOMAIN SESSIONS :
           key[1] \in DOMAIN USERS /\ key[2] \in DOMAIN USERS

\* two messages wait in an inbox after two session_init calls, each with
\* its session
C22_Witness ==
    /\ inits = MaxInits
    /\ \E u \in DOMAIN INBOX :
           /\ Len(INBOX[u]) = MaxMsgs
           /\ \A i \in DOMAIN INBOX[u] :
                  <<INBOX[u][i].from, u>> \in DOMAIN SESSIONS

\* session_init answered 'invalid sender/receiver' and no table changed
InitRefused ==
    /\ "error" \in DOMAIN resp'
    /\ resp'.error = "invalid sender/receiver"
    /\ UNCHANGED tables

\* C23 (checked under Spec): session_init(s, r) with s or r no key of USERS
\* returns the error 'invalid sender/receiver' and changes nothing: no
\* one-time prekey is popped, no session is created or overwritten, and
\* INBOX is as it was.
C23_InvalidInitNoChange ==
    [][(resp'.op = "session_init") =>
           (InitRefused \/
               \A s, r \in KnownIds :
                   ~(/\ (s \notin DOMAIN USERS \/ r \notin DOMAIN USERS)
                     /\ v7_session_init(s, r)))]_vars

\* the same for session_init of the v6 backend, under SpecV6
C23_InvalidInitNoChangeV6 ==
    [][(resp'.op = "session_init") =>
           (InitRefused \/
               \A s, r \in KnownIds :
                   ~(/\ (s \notin DOMAIN USERS \/ r \notin DOMAIN USERS)
                     /\ v6_session_init(s, r)))]_vars

\* C23 witness: session_init was refused while a registered user still has
\* one-time prekeys to pop and sessions and waiting messages exist
C23_Witness ==
    /\ resp.op = "session_init"
    /\ "error" \in DOMAIN resp
    /\ resp.error = "invalid sender/receiver"
    /\ \E r \in DOMAIN USERS : DictGetList(PREKEYS, r) # <<>>
    /\ SESSIONS # Idle
    /\ \E u \in DOMAIN INBOX : INBOX[u] # <<>>

\* the ids register has handed out whose users a wipe has removed
WipedIds == {u \in 1..uuids : u \notin DOMAIN USERS}

\* the five tables are empty after the step
AllEmpty ==
    /\ USERS' = Idle
    /\ PREKEYS' = Idle
    /\ SESSIONS' = Idle
    /\ INBOX' = Idle
    /\ CALL_CONNECTIONS' = {}

\* C24 (checked under SpecWipe): wipe with an admin_secret other than the
\* configured one returns an error and leaves USERS, PREKEYS, SESSIONS,
\* INBOX and CALL_CONNECTIONS as they were; wipe with the configured secret
\* leaves the five tables empty, and from then on every message_send and
\* session_init that names a user registered before the wipe returns an
\* error.
C24_Wipe ==
    [][/\ (resp'.op = "wipe") =>
              \A secret \in AdminSecrets :
                  wipe(secret) =>
                      IF secret = ZERO_TRACE_SECRET
                      THEN AllEmpty
                      ELSE /\ "error" \in DOMAIN resp'
                           /\ UNCHANGED <<tables, CALL_CONNECTIONS>>
       /\ (resp'.op = "session_init") =>
              \A s, r \in KnownIds :
                  (({s, r} \cap WipedIds # {}) /\ v7_session_init(s, r))
                  => ("error" \in DOMAIN resp' /\ UNCHANGED tables)
       /\ (resp'.op = "message_send") =>
              \A s, r \in KnownIds : \A text \in Texts :
                  (({s, r} \cap WipedIds # {})
                      /\ v7_message_send(s, r, text))
                  => ("error" \in DOMAIN resp' /\ UNCHANGED tables)]_vars

\* the same for zerotrace_wipe, session_init and message_send of the v6
\* backend, under SpecV6
C24_WipeV6 ==
    [][/\ (resp'.op = "wipe") =>
              \A secret \in AdminSecrets6 :
                  v6_zerotrace_wipe(secret) =>
                      IF secret = ZERO_TRACE_ADMIN_SECRET
                      THEN AllEmpty
                      ELSE /\ "error" \in DOMAIN resp'
                           /\ UNCHANGED <<tables, CALL_CONNECTIONS>>
       /\ (resp'.op = "session_init") =>
              \A s, r \in KnownIds :
                  (({s, r} \cap WipedIds # {}) /\ v6_session_init(s, r))
                  => ("error" \in DOMAIN resp' /\ UNCHANGED tables)
       /\ (resp'.op = "message_send") =>
              \A s, r \in KnownIds : \A text \in Texts :
                  (({s, r} \cap WipedIds # {})
                      /\ v6_message_send(s, r, text))
                  => ("error" \in DOMAIN resp' /\ UNCHANGED tables)]_vars

\* C24 witness: users had registered, opened a session and sent a message,
\* the wipe emptied the tables, and a message_send that names them was
\* refused; a client has opened a call socket since
C24_Witness ==
    /\ WipedIds = 1..MaxUsers
    /\ inits >= 1
    /\ nonces >= 1
    /\ USERS = Idle /\ PREKEYS = Idle /\ SESSIONS = Idle /\ INBOX = Idle
    /\ resp.op = "message_send"
    /\ "error" \in DOMAIN resp
    /\ CALL_CONNECTIONS # {}
=============================================================================
